---- MODULE Spec2Model ----
(***************************************************************************)
(* The inference service of api/main.py: the startup hook that loads the   *)
(* regressor and the feature-name list, the /predict handler with its      *)
(* single-reading feature engineering, and the drift monitor (/monitoring, *)
(* /monitoring/reset) over the bounded window of recent predictions.       *)
(*                                                                         *)
(* Numbers.  A Python float is modelled as an exact rational <<num, den>>  *)
(* with den > 0.  A raw reading holds, for field f, the integer            *)
(* value * Scale(f) (its "ticks"), so that a raw value is the rational     *)
(* <<ticks, Scale(f)>> and every sum over the window stays inside TLC's    *)
(* 32-bit integers.  A regressor output is held in thousandths of a cycle. *)
(***************************************************************************)
EXTENDS Integers, Sequences, FiniteSets, TLC

----------------------------------------------------------------------------
(* Generic helpers *)

(* the empty dict *)
EmptyDict == [k \in {} |-> 0]

None == << >>
Some(x) == << x >>

SeqToSet(s) == { s[i] : i \in 1..Len(s) }

Abs(x) == IF x < 0 THEN -x ELSE x

RECURSIVE GCD(_, _)
GCD(a, b) == IF b = 0 THEN a ELSE GCD(b, a % b)

(* Rationals <<num, den>> with den > 0.  The operations cancel common      *)
(* factors before they multiply, so that no intermediate value overflows;  *)
(* Reduce gives the lowest terms.                                          *)
Rat(n, d) == << n, d >>

Reduce(a) ==
    LET g == GCD(Abs(a[1]), a[2])
    IN  << a[1] \div g, a[2] \div g >>

RatEq(a, b) == Reduce(a) = Reduce(b)

RatAbs(a) == << Abs(a[1]), a[2] >>

RatSub(a, b) ==
    IF a[2] = b[2] THEN << a[1] - b[1], a[2] >>
    ELSE LET g == GCD(a[2], b[2])
         IN  << a[1] * (b[2] \div g) - b[1] * (a[2] \div g), (a[2] \div g) * b[2] >>

RatMul(a, b) ==
    LET g1 == GCD(Abs(a[1]), b[2])
        g2 == GCD(Abs(b[1]), a[2])
    IN  << (a[1] \div g1) * (b[1] \div g2), (a[2] \div g2) * (b[2] \div g1) >>

(* a / b for b # 0 *)
RatDiv(a, b) ==
    RatMul(a, IF b[1] < 0 THEN << -b[2], -b[1] >> ELSE << b[2], b[1] >>)

RatIsZero(a) == a[1] = 0

(* a > b for a, b >= 0, by comparing integer parts and then the           *)
(* reciprocals of the fractional parts (no product is formed)              *)
RECURSIVE FracGT(_, _, _, _)
FracGT(a1, a2, b1, b2) ==
    IF a1 \div a2 # b1 \div b2 THEN a1 \div a2 > b1 \div b2
    ELSE IF a1 % a2 = 0 THEN FALSE
    ELSE IF b1 % b2 = 0 THEN TRUE
    ELSE FracGT(b2, b1 % b2, a2, a1 % a2)

(* a >= b for a, b >= 0 *)
RatGE(a, b) == ~FracGT(b[1], b[2], a[1], a[2])

(* a > b for a, b >= 0 *)
RatGT(a, b) == FracGT(a[1], a[2], b[1], b[2])

(* round-half-even of (n * 10^k) / d for n >= 0, d > 0, by long division *)
RECURSIVE Digits(_, _, _, _)
Digits(q, r, d, k) ==
    IF k = 0
    THEN IF 2 * r > d \/ (2 * r = d /\ q % 2 = 1) THEN q + 1 ELSE q
    ELSE Digits(q * 10 + (10 * r) \div d, (10 * r) % d, d, k - 1)

(* Python's round(x, k): the result counted in units of 10^-k *)
Round(x, k) ==
    LET n == Abs(x[1])
        v == Digits(n \div x[2], n % x[2], x[2], k)
    IN  IF x[1] < 0 THEN -v ELSE v

----------------------------------------------------------------------------
(* Module-level constants of api/main.py *)

SETTINGS == << "setting_1", "setting_2", "setting_3" >>

SENSOR_COLUMNS ==
    << "s_1", "s_2", "s_3", "s_4", "s_5", "s_6", "s_7", "s_8", "s_9", "s_10",
       "s_11", "s_12", "s_13", "s_14", "s_15", "s_16", "s_17", "s_18", "s_19",
       "s_20", "s_21" >>

(* the fields of the request schema, in declaration order *)
EngineFeatures == SETTINGS \o SENSOR_COLUMNS

DROPPED_SENSORS == << "s_1", "s_5", "s_10", "s_16", "s_18", "s_19" >>

KEY_SENSORS ==
    << "s_2", "s_3", "s_4", "s_7", "s_8", "s_9", "s_11", "s_12",
       "s_13", "s_14", "s_15", "s_17", "s_20", "s_21" >>

(* ticks per unit of each raw field (the fixed-point resolution) *)
Scale(f) ==
    IF f \in { "setting_1", "setting_2", "s_15", "s_21" } THEN 10000
    ELSE IF f \in SeqToSet(DROPPED_SENSORS) THEN 1000
    ELSE 100

(* BASELINE_STATS, in ticks: -0.0001, 0.0002, 100.0, 642.6, ... , 23.42 *)
BASELINE_STATS ==
    [ setting_1 |-> -1, setting_2 |-> 2, setting_3 |-> 10000, s_2 |-> 64260,
      s_3 |-> 159140, s_4 |-> 140710, s_6 |-> 2160, s_7 |-> 55490,
      s_8 |-> 238810, s_9 |-> 905930, s_11 |-> 4750, s_12 |-> 52230,
      s_13 |-> 238810, s_14 |-> 814050, s_15 |-> 84400, s_17 |-> 39100,
      s_20 |-> 3910, s_21 |-> 234200 ]

(* the keys of BASELINE_STATS in insertion order *)
BASELINE_KEYS ==
    << "setting_1", "setting_2", "setting_3", "s_2", "s_3", "s_4", "s_6",
       "s_7", "s_8", "s_9", "s_11", "s_12", "s_13", "s_14", "s_15",
       "s_17", "s_20", "s_21" >>

BaselineValue(f) == << BASELINE_STATS[f], Scale(f) >>

(* DRIFT_THRESHOLD = 0.20 *)
DRIFT_THRESHOLD == << 1, 5 >>

(* deque(maxlen=100) *)
MAXLEN == 100

(* Python's order on the names the service handles (str.__lt__, by code    *)
(* point), as the table sorted() consults.                                 *)
NAME_ORDER ==
    << "", "RUL", "RUL_clipped", "s_1", "s_10", "s_10_mean",
       "s_10_norm", "s_10_std", "s_11", "s_11_mean", "s_11_norm", "s_11_std",
       "s_12", "s_12_mean", "s_12_norm", "s_12_std", "s_13", "s_13_mean",
       "s_13_norm", "s_13_std", "s_14", "s_14_mean", "s_14_norm", "s_14_std",
       "s_15", "s_15_mean", "s_15_norm", "s_15_std", "s_16", "s_16_mean",
       "s_16_norm", "s_16_std", "s_17", "s_17_mean", "s_17_norm", "s_17_std",
       "s_18", "s_18_mean", "s_18_norm", "s_18_std", "s_19", "s_19_mean",
       "s_19_norm", "s_19_std", "s_1_mean", "s_1_norm", "s_1_std", "s_2",
       "s_20", "s_20_mean", "s_20_norm", "s_20_std", "s_21", "s_21_mean",
       "s_21_norm", "s_21_std", "s_2_mean", "s_2_norm", "s_2_std", "s_3",
       "s_3_mean", "s_3_norm", "s_3_std", "s_4", "s_4_mean", "s_4_norm",
       "s_4_std", "s_5", "s_5_mean", "s_5_norm", "s_5_std", "s_6",
       "s_6_mean", "s_6_norm", "s_6_std", "s_7", "s_7_mean", "s_7_norm",
       "s_7_std", "s_8", "s_8_mean", "s_8_norm", "s_8_std", "s_9",
       "s_9_mean", "s_9_norm", "s_9_std", "setting_1", "setting_2", "setting_3",
       "time_cycles", "unit_nr" >>

(* the names of S in descending order *)
descending(S) ==
    SelectSeq([i \in 1..Len(NAME_ORDER) |-> NAME_ORDER[Len(NAME_ORDER) + 1 - i]],
              LAMBDA n : n \in S)

sorted(S) == SelectSeq(NAME_ORDER, LAMBDA n : n \in S)

----------------------------------------------------------------------------
(* Single-row data frames: the column order and the row's values *)

HasColumn(df, name) == name \in DOMAIN df.row

(* df[name] = value: overwrite in place, or append a new last column *)
SetColumn(df, name, value) ==
    [columns |-> IF HasColumn(df, name) THEN df.columns ELSE Append(df.columns, name),
     row     |-> (name :> value) @@ df.row]

(* pd.DataFrame([features.dict()]) *)
DataFrame(body) ==
    [columns |-> EngineFeatures,
     row |-> [f \in SeqToSet(EngineFeatures) |-> Rat(body[f], Scale(f))]]

(* df.drop(columns=names); every name is a column of df *)
DropColumns(df, names) ==
    [columns |-> SelectSeq(df.columns, LAMBDA c : c \notin SeqToSet(names)),
     row |-> [c \in DOMAIN df.row \ SeqToSet(names) |-> df.row[c]]]

(* df[names]: the named columns, in the order of names *)
SelectColumns(df, names) ==
    [columns |-> names,
     row |-> [c \in SeqToSet(names) |-> df.row[c]]]

(* the features of one sensor with the difference from the baseline left   *)
(* undivided                                                               *)
EngineerSensorUnscaled(result, sensor) ==
    IF ~HasColumn(result, sensor) THEN result
    ELSE LET x  == result.row[sensor]
             r1 == SetColumn(result, sensor \o "_mean", x)
             r2 == SetColumn(r1, sensor \o "_std", Rat(0, 1))
         IN  IF sensor \in DOMAIN BASELINE_STATS
             THEN SetColumn(r2, sensor \o "_norm", RatSub(x, BaselineValue(sensor)))
             ELSE r2

(* the loop body of create_engineered_features for one sensor *)
EngineerSensor(result, sensor) ==
    IF ~HasColumn(result, sensor) THEN result
    ELSE LET x  == result.row[sensor]
             r1 == SetColumn(result, sensor \o "_mean", x)
             r2 == SetColumn(r1, sensor \o "_std", Rat(0, 1))
         IN  IF sensor \in DOMAIN BASELINE_STATS
             THEN LET mean_val == BaselineValue(sensor)
                      std_val  == IF ~RatIsZero(mean_val)
                                  THEN RatMul(RatAbs(mean_val), Rat(5, 100))
                                  ELSE Rat(1, 1)
                  IN  SetColumn(r2, sensor \o "_norm",
                                RatDiv(RatSub(x, mean_val), std_val))
             ELSE r2

RECURSIVE EngineerFrom(_, _)
EngineerFrom(result, i) ==
    IF i > Len(KEY_SENSORS) THEN result
    ELSE EngineerFrom(EngineerSensor(result, KEY_SENSORS[i]), i + 1)

create_engineered_features(raw_input) == EngineerFrom(raw_input, 1)

(* the absent names filled with 1.0 *)
FillWithOnes(df, names) ==
    LET absent == { i \in 1..Len(names) :
                      /\ ~HasColumn(df, names[i])
                      /\ \A j \in 1..(i - 1) : names[j] # names[i] }
        Added[i \in 0..Len(names)] ==
            IF i = 0 THEN << >>
            ELSE IF i \in absent THEN Append(Added[i - 1], names[i])
            ELSE Added[i - 1]
    IN  [columns |-> df.columns \o Added[Len(names)],
         row |-> [c \in DOMAIN df.row \cup SeqToSet(names) |->
                     IF c \in DOMAIN df.row THEN df.row[c] ELSE Rat(1, 1)]]

(* for feat in EXPECTED_FEATURES: if feat not in columns: df[feat] = 0.0   *)
(* each absent name becomes a new last column, once, in list order         *)
FillMissing(df, names) ==
    LET absent == { i \in 1..Len(names) :
                      /\ ~HasColumn(df, names[i])
                      /\ \A j \in 1..(i - 1) : names[j] # names[i] }
        Added[i \in 0..Len(names)] ==
            IF i = 0 THEN << >>
            ELSE IF i \in absent THEN Append(Added[i - 1], names[i])
            ELSE Added[i - 1]
    IN  [columns |-> df.columns \o Added[Len(names)],
         row |-> [c \in DOMAIN df.row \cup SeqToSet(names) |->
                     IF c \in DOMAIN df.row THEN df.row[c] ELSE Rat(0, 1)]]

(* "if EXPECTED_FEATURES:" is false for None and for the empty list *)
Truthy(opt) == opt # None /\ opt[1] # << >>

(* lines 260-268: the frame handed to xgb.DMatrix *)
FinalData(engineered_data, expected) ==
    IF Truthy(expected)
    THEN SelectColumns(FillMissing(engineered_data, expected[1]), expected[1])
    ELSE engineered_data

(* xgb.DMatrix(final_data): the feature names and the values, by position *)
DMatrix(final_data) ==
    [feature_names |-> final_data.columns,
     data |-> [i \in 1..Len(final_data.columns) |-> final_data.row[final_data.columns[i]]]]

(* min(125.0, float(rul_pred)): the upper limit alone *)
ClampAbove(rul) == IF rul < 125000 THEN rul ELSE 125000

(* max(0.0, min(125.0, float(rul_pred))), in thousandths of a cycle *)
Clamp(rul) ==
    LET lo == IF rul < 125000 THEN rul ELSE 125000
    IN  IF lo > 0 THEN lo ELSE 0

Status(rul_pred) ==
    IF rul_pred < 30000 THEN "Critical"
    ELSE IF rul_pred < 80000 THEN "Warning"
    ELSE "Healthy"

(* get_status_class of streamlit_app.py on the RUL of a response, counted  *)
(* in hundredths of a cycle                                                *)
get_status_class(rul) ==
    IF rul < 3000 THEN "Critical"
    ELSE IF rul < 8000 THEN "Warning"
    ELSE "Safe"

Confidence(rul_pred) ==
    IF rul_pred < 30000 THEN "High"
    ELSE IF rul_pred < 80000 THEN "Medium"
    ELSE "High"

(* list.append: what the window would do without maxlen *)
ListAppend(d, x) == Append(d, x)

(* a bounded buffer that refuses the new element when it is full *)
AppendUnlessFull(d, x) ==
    IF Len(d) >= MAXLEN THEN d ELSE Append(d, x)

(* a bounded buffer that drops its right end when it is full *)
AppendDropNewest(d, x) ==
    IF Len(d) >= MAXLEN THEN Append(SubSeq(d, 1, Len(d) - 1), x) ELSE Append(d, x)

(* an append that runs twice *)
AppendTwice(d, x) == Append(Append(d, x), x)

(* deque.append on a deque(maxlen=MAXLEN): a full deque drops its left end *)
DequeAppend(d, x) ==
    IF Len(d) >= MAXLEN THEN Append(Tail(d), x) ELSE Append(d, x)

(* a clear that only drops the left end *)
PopLeft(d) == IF d = << >> THEN d ELSE Tail(d)

(* deque.clear() *)
DequeClear(d) == << >>

----------------------------------------------------------------------------
(* Text files: a content is a sequence of characters, where a feature name *)
(* counts as one character that is not white space.                        *)

WHITESPACE == { " ", "\t", "\n", "\r" }

(* '\n'.join(feature_cols) *)
RECURSIVE JoinLines(_)
JoinLines(names) ==
    IF names = << >> THEN << >>
    ELSE IF Len(names) = 1 THEN << names[1] >>
    ELSE << names[1], "\n" >> \o JoinLines(Tail(names))

(* f.readlines(): each line keeps its newline *)
RECURSIVE ReadLines(_, _)
ReadLines(content, line) ==
    IF content = << >> THEN (IF line = << >> THEN << >> ELSE << line >>)
    ELSE IF content[1] = "\n"
         THEN << Append(line, "\n") >> \o ReadLines(Tail(content), << >>)
         ELSE ReadLines(Tail(content), Append(line, content[1]))

RECURSIVE LStrip(_)
LStrip(line) ==
    IF line # << >> /\ line[1] \in WHITESPACE THEN LStrip(Tail(line)) ELSE line

RECURSIVE RStrip(_)
RStrip(line) ==
    IF line # << >> /\ line[Len(line)] \in WHITESPACE
    THEN RStrip(SubSeq(line, 1, Len(line) - 1)) ELSE line

RECURSIVE Concat(_)
Concat(chars) == IF chars = << >> THEN "" ELSE chars[1] \o Concat(Tail(chars))

(* a line taken as it was read, its newline included *)
KeepNewline(line) == Concat(line)

(* line.strip() *)
Strip(line) == Concat(RStrip(LStrip(line)))

(* [line.strip() for line in f.readlines()] *)
ReadFeatureNames(content) ==
    LET lines == ReadLines(content, << >>)
    IN  [i \in 1..Len(lines) |-> Strip(lines[i])]

(* the hardcoded list load_model falls back to *)
DefaultFeatures ==
    sorted(SeqToSet(SETTINGS)
           \cup { KEY_SENSORS[i] \o suffix :
                    i \in 1..Len(KEY_SENSORS), suffix \in { "_mean", "_norm", "_std" } })

----------------------------------------------------------------------------
(* Training side: the feature-name list train_model writes *)

CONSTANT_SENSORS == << "s_1", "s_5", "s_10", "s_16", "s_18", "s_19" >>

(* column_names of load_raw_data *)
RawColumns == << "unit_nr", "time_cycles" >> \o SETTINGS \o SENSOR_COLUMNS

(* the columns of the frame load_and_process_data returns *)
ProcessedColumns(add_rolling, add_normalization, clip_rul_values) ==
    LET labelled == RawColumns \o << "RUL" >>
                    \o (IF clip_rul_values THEN << "RUL_clipped" >> ELSE << >>)
        kept     == SelectSeq(labelled, LAMBDA c : c \notin SeqToSet(CONSTANT_SENSORS))
        present  == SelectSeq(KEY_SENSORS, LAMBDA s : s \in SeqToSet(kept))
        RollingNames[i \in 0..Len(present)] ==
            IF i = 0 THEN << >>
            ELSE RollingNames[i - 1] \o << present[i] \o "_mean", present[i] \o "_std" >>
        rolled   == IF add_rolling THEN kept \o RollingNames[Len(present)] ELSE kept
        normed   == [i \in 1..Len(present) |-> present[i] \o "_norm"]
    IN  IF add_normalization THEN rolled \o normed ELSE rolled

(* str.endswith / str.startswith, over the name fragments the model handles *)
NameParts ==
    SeqToSet(NAME_ORDER) \cup { ToString(k) : k \in 0..21 }
    \cup { "_mean", "_std", "_norm", "setting_" }

(* the names ending with each suffix, and starting with each prefix, the   *)
(* program tests for                                                       *)
NamesEnding ==
    LET names == [suffix \in { "_mean", "_std", "_norm" } |->
                    { p \o suffix : p \in NameParts }]
    IN  IF names = EmptyDict THEN EmptyDict ELSE names

NamesStarting ==
    LET names == [prefix \in { "setting_" } |->
                    { prefix \o rest : rest \in NameParts }]
    IN  IF names = EmptyDict THEN EmptyDict ELSE names

EndsWith(name, suffix) == name \in NamesEnding[suffix]

StartsWith(name, prefix) == name \in NamesStarting[prefix]

(* get_feature_columns of src/data_preprocessing.py *)
get_feature_columns(columns, include_rolling, include_normalized, include_raw) ==
    LET exclude_cols == { "unit_nr", "time_cycles", "RUL", "RUL_clipped" }
        is_rolling(col)    == EndsWith(col, "_mean") \/ EndsWith(col, "_std")
        is_normalized(col) == EndsWith(col, "_norm")
        is_setting(col)    == StartsWith(col, "setting_")
        is_raw(col)        == ~is_rolling(col) /\ ~is_normalized(col) /\ ~is_setting(col)
        Selected(col) ==
            /\ col \notin exclude_cols
            /\ \/ is_setting(col)
               \/ is_rolling(col) /\ include_rolling
               \/ is_normalized(col) /\ include_normalized
               \/ is_raw(col) /\ include_raw
    IN  sorted({ c \in SeqToSet(columns) : Selected(c) })

(* feature_cols of train_model with its default flags *)
TrainedFeatures ==
    get_feature_columns(ProcessedColumns(TRUE, TRUE, TRUE), TRUE, TRUE, FALSE)

----------------------------------------------------------------------------
(* The disk the service starts from *)

MissingFile    == [exists |-> FALSE, readable |-> FALSE, content |-> << >>]
UnreadableFile == [exists |-> TRUE,  readable |-> FALSE, content |-> << >>]
TextFile(c)    == [exists |-> TRUE,  readable |-> TRUE,  content |-> c]

(* feature_columns.txt as train_model leaves it *)
TrainedFile == TextFile(JoinLines(TrainedFeatures))

(* a file with no line in it *)
EmptyFile == TextFile(<< >>)

(* a list kept by hand: indented, ending in a newline, not sorted, and     *)
(* naming a feature the service does not compute (s_6 is no key sensor)    *)
LegacyFile ==
    TextFile(<< "setting_3", "\n", " ", "s_6_mean", "\n", "s_2_norm", "\n" >>)

FeatureFiles == { MissingFile, UnreadableFile, TrainedFile, EmptyFile, LegacyFile }

ModelFiles == { "missing", "corrupt", "ok" }

----------------------------------------------------------------------------
(* Requests *)

(* Readings clients send, in ticks *)

(* every field at its training mean *)
BaselineReading ==
    [ setting_1 |-> -1, setting_2 |-> 2, setting_3 |-> 10000, s_1 |-> 518670,
      s_2 |-> 64260, s_3 |-> 159140, s_4 |-> 140710, s_5 |-> 14620,
      s_6 |-> 2160, s_7 |-> 55490, s_8 |-> 238810, s_9 |-> 905930,
      s_10 |-> 1300, s_11 |-> 4750, s_12 |-> 52230, s_13 |-> 238810,
      s_14 |-> 814050, s_15 |-> 84400, s_16 |-> 30, s_17 |-> 39100,
      s_18 |-> 2388000, s_19 |-> 100000, s_20 |-> 3910, s_21 |-> 234200 ]

(* every sensor multiplied by 1.5 *)
DriftedReading ==
    [ setting_1 |-> -1, setting_2 |-> 2, setting_3 |-> 10000, s_1 |-> 778005,
      s_2 |-> 96390, s_3 |-> 238710, s_4 |-> 211065, s_5 |-> 21930,
      s_6 |-> 3240, s_7 |-> 83235, s_8 |-> 358215, s_9 |-> 1358895,
      s_10 |-> 1950, s_11 |-> 7125, s_12 |-> 78345, s_13 |-> 358215,
      s_14 |-> 1221075, s_15 |-> 126600, s_16 |-> 45, s_17 |-> 58650,
      s_18 |-> 3582000, s_19 |-> 150000, s_20 |-> 5865, s_21 |-> 351300 ]

(* every sensor multiplied by 1.2: each deviation is exactly 0.20 *)
BoundaryReading ==
    [ setting_1 |-> -1, setting_2 |-> 2, setting_3 |-> 10000, s_1 |-> 622404,
      s_2 |-> 77112, s_3 |-> 190968, s_4 |-> 168852, s_5 |-> 17544,
      s_6 |-> 2592, s_7 |-> 66588, s_8 |-> 286572, s_9 |-> 1087116,
      s_10 |-> 1560, s_11 |-> 5700, s_12 |-> 62676, s_13 |-> 286572,
      s_14 |-> 976860, s_15 |-> 101280, s_16 |-> 36, s_17 |-> 46920,
      s_18 |-> 2865600, s_19 |-> 120000, s_20 |-> 4692, s_21 |-> 281040 ]

(* a request body without the required field s_2 *)
IncompleteReading ==
    [f \in SeqToSet(EngineFeatures) \ { "s_2" } |-> BaselineReading[f]]

Readings == { BaselineReading, DriftedReading, BoundaryReading }

(* what model.predict does with the matrix: it returns a number (in        *)
(* thousandths of a cycle) or raises                                       *)
Returns(v) == [raised |-> FALSE, value |-> v]
Raises     == [raised |-> TRUE,  value |-> 0]

RegressorOutcomes == { Returns(29996), Returns(200000), Raises }


----------------------------------------------------------------------------
(* Batch preprocessing (src/data_preprocessing.py).  A frame is a list of  *)
(* column names and a list of rows, each row a function from the column    *)
(* names to values.  Raw values are integers; a mean is a rational; a      *)
(* standard deviation is held as the rational it is the square root of.    *)

RUL_CAP == 125
ROLLING_WINDOW == 5

(* the square root of the rational v >= 0 *)
Sqrt(v) == [sqrt_of |-> Reduce(v)]

(* the rows of a frame, worked out once: an equality makes TLC tabulate   *)
(* a function instead of evaluating its body at every use                 *)
Rows(rows) ==
    IF rows = << >> THEN << >>
    ELSE IF \A i \in DOMAIN rows : rows[i] = EmptyDict THEN rows
    ELSE rows

(* what read_csv puts where a line has no field for a column *)
MissingField == "NaN"

(* pd.read_csv(data_path, sep=r'\s+', header=None, names=column_names):    *)
(* one row per line and one field per column, in order; a line with fewer  *)
(* fields than names is completed with missing values                      *)
load_raw_data(lines) ==
    [columns |-> RawColumns,
     rows    |-> Rows([i \in 1..Len(lines) |->
                    [c \in SeqToSet(RawColumns) |->
                        LET k == CHOOSE k \in 1..Len(RawColumns) : RawColumns[k] = c
                        IN  IF k <= Len(lines[i]) THEN lines[i][k]
                            ELSE MissingField]])]

(* ingest_data of steps/ingest_data.py: the same read_csv call *)
ingest_data(lines) == load_raw_data(lines)

(* df[name] = values, one value per row *)
SetFrameColumn(df, name, values) ==
    [columns |-> IF name \in SeqToSet(df.columns) THEN df.columns
                 ELSE Append(df.columns, name),
     rows    |-> Rows([i \in 1..Len(df.rows) |-> (name :> values[i]) @@ df.rows[i]])]

(* the frame with every column kept *)
KeepFrameColumns(df, names) == df

(* df.drop(columns=names) *)
DropFrameColumns(df, names) ==
    LET kept == SelectSeq(df.columns, LAMBDA c : c \notin names)
    IN  [columns |-> kept,
         rows    |-> Rows([i \in 1..Len(df.rows) |->
                        [c \in SeqToSet(kept) |-> df.rows[i][c]]])]

(* the greatest of a non-empty set of integers *)
SetMax(S) == CHOOSE m \in S : \A x \in S : x <= m

(* the greatest cycle of the whole frame, units not told apart *)
calculate_rul_ungrouped(df) ==
    LET n == Len(df.rows)
    IN  SetFrameColumn(df, "RUL",
                       [i \in 1..n |->
                           SetMax({ df.rows[j].time_cycles : j \in 1..n })
                           - df.rows[i].time_cycles])

(* df.groupby('unit_nr')['time_cycles'].transform('max') - df['time_cycles'] *)
calculate_rul(df) ==
    LET n == Len(df.rows)
        GroupMax(i) ==
            SetMax({ df.rows[j].time_cycles :
                       j \in { k \in 1..n : df.rows[k].unit_nr = df.rows[i].unit_nr } })
    IN  SetFrameColumn(df, "RUL",
                       [i \in 1..n |-> GroupMax(i) - df.rows[i].time_cycles])

(* Series.clip(lower=cap) of one value *)
ClipLower(x, cap) == IF x < cap THEN cap ELSE x

(* Series.clip(upper=cap) of one value *)
ClipUpper(x, cap) == IF x > cap THEN cap ELSE x

clip_rul(df, cap) ==
    SetFrameColumn(df, "RUL_clipped",
                   [i \in 1..Len(df.rows) |-> ClipUpper(df.rows[i].RUL, cap)])

(* the rows of the unit of row i, in frame order, up to row i: what the    *)
(* group's Series holds when rolling reaches row i                         *)
GroupUpTo(df, i) ==
    SelectSeq([j \in 1..i |-> j],
              LAMBDA j : df.rows[j].unit_nr = df.rows[i].unit_nr)

(* a window centred on row i: it reaches as far ahead as back *)
CenteredRows(df, i, window) ==
    LET g == SelectSeq([j \in 1..Len(df.rows) |-> j],
                       LAMBDA j : df.rows[j].unit_nr = df.rows[i].unit_nr)
        p == Len(GroupUpTo(df, i))
        lo == IF p - window \div 2 < 1 THEN 1 ELSE p - window \div 2
        hi == IF p + window \div 2 > Len(g) THEN Len(g) ELSE p + window \div 2
    IN  SubSeq(g, lo, hi)

(* the last `window` rows of the frame up to row i, units not told apart *)
TrailingRows(df, i, window) ==
    IF i > window THEN [k \in 1..window |-> i - window + k] ELSE [k \in 1..i |-> k]

(* x.rolling(window, min_periods=1): the last `window` rows of the group   *)
RollingRows(df, i, window) ==
    LET g == GroupUpTo(df, i)
    IN  IF Len(g) > window THEN SubSeq(g, Len(g) - window + 1, Len(g)) ELSE g

(* the sum of the values of column c on the rows js *)
SumOf(df, c, js) ==
    LET S[k \in 0..Len(js)] ==
            IF k = 0 THEN 0 ELSE S[k - 1] + df.rows[js[k]][c]
    IN  S[Len(js)]

(* the sum of their squares *)
SumSquaresOf(df, c, js) ==
    LET S[k \in 0..Len(js)] ==
            IF k = 0 THEN 0 ELSE S[k - 1] + df.rows[js[k]][c] * df.rows[js[k]][c]
    IN  S[Len(js)]

(* .mean() of the values of column c on the rows js *)
MeanOf(df, c, js) == Rat(SumOf(df, c, js), Len(js))

(* NaN, as the standard deviation of a single value is: the root of 0/0 *)
NaN == [sqrt_of |-> << 0, 0 >>]

(* .std() (ddof=1) of the values of column c on the rows js *)
StdOf(df, c, js) ==
    LET n  == Len(js)
        s  == SumOf(df, c, js)
        ss == SumSquaresOf(df, c, js)
    IN  IF n < 2 THEN NaN
        ELSE Sqrt(Rat(n * ss - s * s, n * (n - 1)))

(* df.fillna(0), on frames read from complete lines: their numbers are    *)
(* never missing, and only the standard deviations (the _std columns) can  *)
(* hold NaN                                                                *)
FillNa(df) ==
    [columns |-> df.columns,
     rows    |-> Rows([i \in 1..Len(df.rows) |->
                    [c \in SeqToSet(df.columns) |->
                        IF EndsWith(c, "_std") /\ df.rows[i][c] = NaN
                        THEN Sqrt(Rat(0, 1))
                        ELSE df.rows[i][c]]])]

(* create_rolling_features.  A pass of its loop reads the column of its    *)
(* sensor and writes the two columns sensor_mean and sensor_std, which no  *)
(* pass reads: the frame after the loop holds, for every requested sensor  *)
(* that is a column, the two columns computed from the frame it was given  *)
create_rolling_features(df, sensors, window) ==
    LET present == SelectSeq(sensors, LAMBDA s : s \in SeqToSet(df.columns))
        Names[k \in 0..Len(present)] ==
            IF k = 0 THEN << >>
            ELSE Names[k - 1] \o << present[k] \o "_mean", present[k] \o "_std" >>
        added   == SelectSeq(Names[Len(present)],
                             LAMBDA c : c \notin SeqToSet(df.columns))
        columns == df.columns \o added
        IsMean(c) == \E s \in SeqToSet(present) : c = s \o "_mean"
        IsStd(c)  == \E s \in SeqToSet(present) : c = s \o "_std"
        Value(i, c) ==
            IF IsMean(c)
            THEN Reduce(MeanOf(df, CHOOSE s \in SeqToSet(present) : c = s \o "_mean",
                               RollingRows(df, i, window)))
            ELSE IF IsStd(c)
            THEN StdOf(df, CHOOSE s \in SeqToSet(present) : c = s \o "_std",
                       RollingRows(df, i, window))
            ELSE df.rows[i][c]
    IN  FillNa([columns |-> columns,
                rows    |-> Rows([i \in 1..Len(df.rows) |->
                               [c \in SeqToSet(columns) |-> Value(i, c)]])])

(* a test that lets a standard deviation of zero through *)
StdNotNaN(std_val) == std_val # NaN

(* std_val > 0, for a standard deviation: NaN compares False *)
StdPositive(std_val) == std_val # NaN /\ std_val.sqrt_of[1] > 0

(* (df[sensor] - mean_val) / std_val of one value: the difference, and    *)
(* the standard deviation it is divided by                                 *)
Normalized(x, mean_val, std_val) ==
    [difference |-> Reduce(RatSub(Rat(x, 1), mean_val)), divided_by |-> std_val]

(* normalize_sensors: the pair (df, stats) it returns; stats = None stands *)
(* for the default argument.  A pass of its loop reads the column of its   *)
(* sensor and writes sensor_norm and stats[sensor], which no pass reads    *)
normalize_sensors(df, sensors, fit, stats) ==
    LET given   == IF stats = None THEN EmptyDict ELSE stats[1]
        all     == [j \in 1..Len(df.rows) |-> j]
        done    == SelectSeq(sensors,
                       LAMBDA s : /\ s \in SeqToSet(df.columns)
                                  /\ fit \/ s \in DOMAIN given)
        fitted(s)   == StdOf(df, s, all)
        mean_val(s) == IF fit THEN Reduce(MeanOf(df, s, all)) ELSE given[s].mean
        std_val(s)  == IF fit
                       THEN (IF StdPositive(fitted(s)) THEN fitted(s)
                             ELSE Sqrt(Rat(1, 1)))
                       ELSE given[s].std
        fresh   == [s \in SeqToSet(done) |-> [mean |-> mean_val(s), std |-> std_val(s)]]
        used    == IF fresh = EmptyDict THEN EmptyDict ELSE fresh
        added   == SelectSeq([k \in 1..Len(done) |-> done[k] \o "_norm"],
                             LAMBDA c : c \notin SeqToSet(df.columns))
        columns == df.columns \o added
        Value(i, c) ==
            IF \E s \in SeqToSet(done) : c = s \o "_norm"
            THEN LET s == CHOOSE t \in SeqToSet(done) : c = t \o "_norm"
                 IN  Normalized(df.rows[i][s], used[s].mean, used[s].std)
            ELSE df.rows[i][c]
    IN  << [columns |-> columns,
            rows    |-> Rows([i \in 1..Len(df.rows) |->
                           [c \in SeqToSet(columns) |-> Value(i, c)]])],
           IF fit THEN used @@ given ELSE given >>

(* load_and_process_data on the lines of the raw file *)
load_and_process_data(lines, add_rolling, add_normalization, clip_rul_values) ==
    LET raw      == load_raw_data(lines)
        labelled == calculate_rul(raw)
        clipped  == IF clip_rul_values THEN clip_rul(labelled, RUL_CAP) ELSE labelled
        dropped  == DropFrameColumns(clipped,
                        { s \in SeqToSet(CONSTANT_SENSORS) :
                            s \in SeqToSet(clipped.columns) })
        rolled   == IF add_rolling
                    THEN create_rolling_features(dropped, KEY_SENSORS, ROLLING_WINDOW)
                    ELSE dropped
        sensors_to_normalize ==
            SelectSeq(KEY_SENSORS, LAMBDA s : s \in SeqToSet(rolled.columns))
    IN  IF add_normalization
        THEN normalize_sensors(rolled, sensors_to_normalize, TRUE, None)[1]
        ELSE rolled

(* the steps of clean_data without the cap on RUL *)
clean_data_unclipped(raw) ==
    LET labelled == calculate_rul(raw)
        dropped  == DropFrameColumns(labelled,
                        { s \in SeqToSet(CONSTANT_SENSORS) :
                            s \in SeqToSet(labelled.columns) })
        rolled   == create_rolling_features(dropped, KEY_SENSORS, ROLLING_WINDOW)
    IN  normalize_sensors(rolled, KEY_SENSORS, TRUE, None)[1]

(* clean_data of steps/clean_data.py on the frame the ingest step loaded *)
clean_data(raw) ==
    LET labelled == calculate_rul(raw)
        clipped  == clip_rul(labelled, RUL_CAP)
        dropped  == DropFrameColumns(clipped,
                        { s \in SeqToSet(CONSTANT_SENSORS) :
                            s \in SeqToSet(clipped.columns) })
        rolled   == create_rolling_features(dropped, KEY_SENSORS, ROLLING_WINDOW)
    IN  normalize_sensors(rolled, KEY_SENSORS, TRUE, None)[1]

(* get_feature_columns of steps/train_model.py *)
steps_get_feature_columns(columns) ==
    LET exclude_cols == { "unit_nr", "time_cycles", "RUL", "RUL_clipped" }
        Selected(col) ==
            /\ col \notin exclude_cols
            /\ \/ EndsWith(col, "_mean") \/ EndsWith(col, "_std")
               \/ EndsWith(col, "_norm")
               \/ StartsWith(col, "setting_")
    IN  sorted({ c \in SeqToSet(columns) : Selected(c) })
----------------------------------------------------------------------------
(* State *)

VARIABLES
    server,              \* "starting", "serving" or "exited"
    model_file,          \* model_optimized.ubj on disk
    feature_file,        \* feature_columns.txt on disk
    model,               \* the global model: None or Some(booster)
    EXPECTED_FEATURES,   \* the global EXPECTED_FEATURES: None or Some(list)
    recent_predictions,  \* the deque of recent predictions
    now,                 \* the clock datetime.now() reads
    dmatrix,             \* the last matrix handed to the regressor
    response,            \* the last response sent
    pending,             \* per client, the request accepted but not yet handled
    train_data,          \* the lines of the raw training file
    df,                  \* the frame the last training run processed
    feature_cols,        \* the feature list the last training run selected
    stats,               \* the statistics the last normalize_sensors call returned
    model_features,      \* the feature list model_file was trained with
    backups,             \* the model_backup_*.ubj files on disk
    retrain_log          \* the entries of retrain_log.json

vars == << server, model_file, feature_file, model, EXPECTED_FEATURES,
           recent_predictions, now, dmatrix, response, pending,
           train_data, df, feature_cols,
           stats, model_features, backups, retrain_log >>

globals == << model, EXPECTED_FEATURES >>
disk == << model_file, feature_file >>
training == << train_data, df, feature_cols >>
offline == << stats, model_features, backups, retrain_log >>

(* no library call made and no retraining run yet; the model file, when    *)
(* there is one, comes from a training run with the default flags          *)
InitOffline ==
    /\ stats = None
    /\ model_features = IF model_file = "ok" THEN Some(TrainedFeatures) ELSE None
    /\ backups = 0
    /\ retrain_log = << >>

Response(endpoint, status_code, body) ==
    Some([endpoint |-> endpoint, status_code |-> status_code, body |-> body])

(* the clients that hold a connection to the server *)
Clients == { "c1", "c2" }

(* the state after the module is imported, on some disk *)
InitOn(model_files, feature_files) ==
    /\ server = "starting"
    /\ model_file \in model_files
    /\ feature_file \in feature_files
    /\ model = None
    /\ EXPECTED_FEATURES = None
    /\ recent_predictions = << >>
    /\ now = 0
    /\ dmatrix = None
    /\ response = None
    /\ pending = [c \in Clients |-> None]
    /\ train_data = << >>
    /\ df = None
    /\ feature_cols = None
    /\ InitOffline

----------------------------------------------------------------------------
(* Startup *)

(* @app.on_event("startup") load_model: any exception ends the process *)
load_model ==
    /\ server = "starting"
    /\ IF model_file = "missing"
       THEN /\ server' = "exited"
            /\ UNCHANGED globals
       ELSE IF model_file = "corrupt"
       THEN /\ model' = Some("Booster()")
            /\ server' = "exited"
            /\ UNCHANGED EXPECTED_FEATURES
       ELSE IF feature_file.exists /\ ~feature_file.readable
       THEN /\ model' = Some("Booster(model_optimized.ubj)")
            /\ server' = "exited"
            /\ UNCHANGED EXPECTED_FEATURES
       ELSE /\ model' = Some("Booster(model_optimized.ubj)")
            /\ EXPECTED_FEATURES' =
                  IF feature_file.exists
                  THEN Some(ReadFeatureNames(feature_file.content))
                  ELSE Some(DefaultFeatures)
            /\ server' = "serving"
    /\ UNCHANGED << disk, recent_predictions, now, dmatrix, response, pending,
                    training, offline >>

(* the application served by a server that does not run the startup hook   *)
(* (lifespan off): the globals keep their import-time values               *)
ServeWithoutStartup ==
    /\ server = "starting"
    /\ server' = "serving"
    /\ UNCHANGED << disk, globals, recent_predictions, now, dmatrix, response,
                    pending, training, offline >>

----------------------------------------------------------------------------
(* POST /predict *)

(* the request schema: every field of EngineFeatures is required *)
Validates(body) == SeqToSet(EngineFeatures) \subseteq DOMAIN body

(* lines 251-258 are pure in the request body: they are tabulated once    *)
(* over the complete bodies the clients of the model send                  *)
InputData ==
    [body \in Readings |-> DropColumns(DataFrame(body), DROPPED_SENSORS)]

(* the engineered frames of an adapter that keeps history: its s_2_std     *)
(* grows with the window                                                   *)
EngineeredWithHistory ==
    [body \in Readings |->
        SetColumn(create_engineered_features(InputData[body]), "s_2_std",
                  Rat(Len(recent_predictions), 1))]

EngineeredData ==
    [body \in Readings |-> create_engineered_features(InputData[body])]

predict_rul(body, outcome) ==
    /\ server = "serving"
    /\ IF ~Validates(body)
       THEN /\ response' = Response("/predict", 422, "field required")
            /\ UNCHANGED << recent_predictions, now, dmatrix >>
       ELSE IF model = None
       THEN /\ response' = Response("/predict", 503, "Model not loaded")
            /\ UNCHANGED << recent_predictions, now, dmatrix >>
       ELSE LET input_data      == InputData[body]
                engineered_data == EngineeredData[body]
                final_data      == FinalData(engineered_data, EXPECTED_FEATURES)
            IN  /\ dmatrix' = Some(DMatrix(final_data))
                /\ IF outcome.raised
                   THEN /\ response' = Response("/predict", 500, "Prediction failed")
                        /\ UNCHANGED << recent_predictions, now >>
                   ELSE LET rul_pred == Clamp(outcome.value)
                            input_record == [timestamp |-> now,
                                             features  |-> input_data.row,
                                             rul       |-> rul_pred]
                        IN  /\ now' = now + 1
                            /\ recent_predictions' =
                                   DequeAppend(recent_predictions, input_record)
                            /\ response' =
                                   Response("/predict", 200,
                                            [RUL |-> Round(Rat(rul_pred, 1000), 2),
                                             status |-> Status(rul_pred),
                                             confidence |-> Confidence(rul_pred),
                                             model_version |-> "2.0.0"])
    /\ UNCHANGED << server, disk, globals >>

----------------------------------------------------------------------------
(* GET /monitoring *)

(* the sum of column f (in ticks) over the window: entries that hold the   *)
(* same snapshot are added as count * value                                *)
RECURSIVE WeightedSum(_, _, _)
WeightedSum(counts, rows, f) ==
    IF rows = {} THEN 0
    ELSE LET r == CHOOSE r \in rows : TRUE
         IN  counts[r] * r[f][1] + WeightedSum(counts, rows \ { r }, f)

(* the oldest entry of the window in place of its mean *)
OldestValues(window) ==
    [f \in DOMAIN window[1].features |-> window[1].features[f]]

(* pd.DataFrame(recent_features).mean().to_dict(), for a non-empty window *)
RecentMeans(window) ==
    LET n      == Len(window)
        rows   == { window[i].features : i \in 1..n }
        counts == [r \in rows |-> Cardinality({ i \in 1..n : window[i].features = r })]
    IN  [f \in DOMAIN window[1].features |->
            Rat(WeightedSum(counts, rows, f), n * Scale(f))]

(* the distance from the baseline, not divided by it *)
AbsoluteDeviation(recent_val, baseline_val) ==
    RatAbs(RatSub(recent_val, baseline_val))

(* lines 391-395 *)
Deviation(recent_val, baseline_val) ==
    IF ~RatIsZero(baseline_val)
    THEN RatDiv(RatAbs(RatSub(recent_val, baseline_val)), RatAbs(baseline_val))
    ELSE RatAbs(RatSub(recent_val, baseline_val))

(* round(deviation * 100, 2), counted in hundredths of a percent: the      *)
(* deviation rounded to four decimals                                      *)
DeviationPct(deviation) == Round(deviation, 4)

(* round(baseline_val, 4) of every baseline *)
BaselineRounded == [f \in SeqToSet(BASELINE_KEYS) |-> Round(BaselineValue(f), 4)]

(* the loop over BASELINE_STATS.keys(), from key i on *)
RECURSIVE DriftLoop(_, _, _)
DriftLoop(recent_means, i, acc) ==
    IF i > Len(BASELINE_KEYS) THEN acc
    ELSE LET feature == BASELINE_KEYS[i]
         IN  IF feature \notin DOMAIN recent_means
             THEN DriftLoop(recent_means, i + 1, acc)
             ELSE LET baseline_val == BaselineValue(feature)
                      recent_val   == recent_means[feature]
                      deviation    == Deviation(recent_val, baseline_val)
                      stat == [baseline      |-> BaselineRounded[feature],
                               recent        |-> Round(recent_val, 4),
                               deviation_pct |-> DeviationPct(deviation)]
                  IN  DriftLoop(recent_means, i + 1,
                        [deviations |-> (feature :> stat) @@ acc.deviations,
                         max_deviation |->
                            IF RatGT(deviation, acc.max_deviation)
                            THEN deviation ELSE acc.max_deviation,
                         drifted_features |->
                            IF RatGT(deviation, DRIFT_THRESHOLD)
                            THEN Append(acc.drifted_features,
                                        [feature |-> feature,
                                         deviation_pct |-> DeviationPct(deviation)])
                            ELSE acc.drifted_features])

(* lines 382-431: the report on the column means of n entries *)
DriftReport(recent_means, n) ==
    LET loop == DriftLoop(recent_means, 1,
                          [deviations |-> EmptyDict,
                           max_deviation |-> Rat(0, 1),
                           drifted_features |-> << >>])
        drift_detected == RatGT(loop.max_deviation, DRIFT_THRESHOLD)
    IN  [drift_detected  |-> drift_detected,
         status          |->
            IF drift_detected
            THEN "Data Drift Warning - " \o ToString(Len(loop.drifted_features))
                 \o " feature(s) exceed threshold"
            ELSE "No significant drift detected",
         metrics         |->
            [max_deviation_pct  |-> DeviationPct(loop.max_deviation),
             threshold_pct      |-> DeviationPct(DRIFT_THRESHOLD),
             drifted_features   |-> loop.drifted_features,
             feature_statistics |-> loop.deviations],
         recent_requests |-> n]

(* a report without the guard on the empty window: the frame of no        *)
(* record has no column, and so no mean                                   *)
ReportUnguarded(window) ==
    DriftReport(IF Len(window) = 0 THEN EmptyDict ELSE RecentMeans(window),
                Len(window))

(* the MonitoringResponse for a window *)
Report(window) ==
    IF Len(window) = 0
    THEN [drift_detected  |-> FALSE,
          status          |-> "No data available for monitoring",
          metrics         |-> EmptyDict,
          recent_requests |-> 0]
    ELSE DriftReport(RecentMeans(window), Len(window))

(* a report that empties the window it has read *)
monitor_and_clear ==
    /\ server = "serving"
    /\ response' = Response("/monitoring", 200, Report(recent_predictions))
    /\ recent_predictions' = << >>
    /\ UNCHANGED << server, disk, globals, now, dmatrix >>

monitor_drift ==
    /\ server = "serving"
    /\ response' = Response("/monitoring", 200, Report(recent_predictions))
    /\ UNCHANGED << server, disk, globals, recent_predictions, now, dmatrix >>

----------------------------------------------------------------------------
(* GET /monitoring/reset *)

reset_monitoring ==
    /\ server = "serving"
    /\ recent_predictions' = DequeClear(recent_predictions)
    /\ response' = Response("/monitoring/reset", 200,
                            [status |-> "Monitoring data cleared",
                             recent_requests |-> 0])
    /\ UNCHANGED << server, disk, globals, now, dmatrix >>

----------------------------------------------------------------------------
(* Specifications *)

(* records a run may make before the clock stops it *)
MaxRecords == 3

(* records of the long run over one repeated reading *)
MaxWindowRecords == 150

Init == InitOn(ModelFiles, FeatureFiles)

(* one client at a time: each request is handled before the next is sent *)
Next ==
    \/ load_model
    \/ ServeWithoutStartup
    \/ \E body \in Readings \cup { IncompleteReading } :
       \E outcome \in RegressorOutcomes :
          now < MaxRecords /\ predict_rul(body, outcome) /\ UNCHANGED << pending, training, offline >>
    \/ monitor_drift /\ UNCHANGED << pending, training, offline >>
    \/ reset_monitoring /\ UNCHANGED << pending, training, offline >>

Spec == Init /\ [][Next]_vars

(* the service started on the disk training leaves, fed one reading *)
InitWindow == InitOn({ "ok" }, { TrainedFile })

NextWindow ==
    \/ load_model
    \/ now < MaxWindowRecords /\ predict_rul(BaselineReading, Returns(100000))
                              /\ UNCHANGED << pending, training, offline >>
    \/ monitor_drift /\ UNCHANGED << pending, training, offline >>
    \/ reset_monitoring /\ UNCHANGED << pending, training, offline >>

SpecWindow == InitWindow /\ [][NextWindow]_vars

----------------------------------------------------------------------------
(* Concurrent clients: uvicorn accepts requests while others wait; the     *)
(* handlers are coroutines without an await, so the event loop runs each   *)
(* one from its first line to its return before it starts another          *)

PredictRequest(body) == [endpoint |-> "/predict", body |-> body]
MonitoringRequest == [endpoint |-> "/monitoring"]
ResetRequest == [endpoint |-> "/monitoring/reset"]

(* a client without a request in flight sends one *)
Send(c, request) ==
    /\ server = "serving"
    /\ pending[c] = None
    /\ pending' = [pending EXCEPT ![c] = Some(request)]
    /\ UNCHANGED << server, disk, globals, recent_predictions, now, dmatrix,
                    response, training, offline >>

(* the event loop picks the request of some client and runs its handler *)
Serve(c, outcome) ==
    /\ pending[c] # None
    /\ pending' = [pending EXCEPT ![c] = None]
    /\ UNCHANGED << training, offline >>
    /\ LET request == pending[c][1]
       IN  \/ /\ request.endpoint = "/predict"
              /\ predict_rul(request.body, outcome)
           \/ /\ request.endpoint = "/monitoring"
              /\ monitor_drift
           \/ /\ request.endpoint = "/monitoring/reset"
              /\ reset_monitoring

(* requests already answered when the concurrent run is observed *)
WarmRecords == 98

(* records a concurrent run may make on top of those *)
MaxConcRecords == 4

(* the record predict_rul appends for a body at a clock value *)
InputRecord(body, outcome, clock) ==
    [timestamp |-> clock,
     features  |-> InputData[body].row,
     rul       |-> Clamp(outcome.value)]

(* the service after WarmRecords answered predictions of one client *)
InitConc ==
    /\ server = "serving"
    /\ model_file = "ok"
    /\ feature_file = TrainedFile
    /\ model = Some("Booster(model_optimized.ubj)")
    /\ EXPECTED_FEATURES = Some(ReadFeatureNames(TrainedFile.content))
    /\ recent_predictions =
          [i \in 1..WarmRecords |->
              InputRecord(BaselineReading, Returns(100000), i - 1)]
    /\ now = WarmRecords
    /\ dmatrix = Some(DMatrix(FinalData(EngineeredData[BaselineReading],
                                        EXPECTED_FEATURES)))
    /\ response = Response("/predict", 200,
                           [RUL |-> Round(Rat(100000, 1000), 2),
                            status |-> Status(100000),
                            confidence |-> Confidence(100000),
                            model_version |-> "2.0.0"])
    /\ pending = [c \in Clients |-> None]
    /\ train_data = << >>
    /\ df = None
    /\ feature_cols = None
    /\ InitOffline

PendingPredictions ==
    Cardinality({ c \in Clients : /\ pending[c] # None
                                  /\ pending[c][1].endpoint = "/predict" })

NextConc ==
    \/ \E c \in Clients :
       \E body \in { BaselineReading, DriftedReading } :
          /\ now + PendingPredictions < WarmRecords + MaxConcRecords
          /\ Send(c, PredictRequest(body))
    \/ \E c \in Clients : Send(c, MonitoringRequest)
    \/ \E c \in Clients : Send(c, ResetRequest)
    \/ \E c \in Clients :
       \E outcome \in { Returns(29996), Raises } : Serve(c, outcome)

SpecConc == InitConc /\ [][NextConc]_vars

----------------------------------------------------------------------------
(* Training runs: a raw file is processed, the feature list is selected    *)
(* and written, and the service is started on what training left on disk   *)

(* rows of the raw files a run reads *)
MaxRows == 3

(* the values sensor s_2 takes in them *)
SensorValues == { 1, 3 }

(* the (unit, cycle) pairs of a row: unit 1 lives long enough for its RUL  *)
(* to pass RUL_CAP                                                         *)
RowKeys == ({ 1 } \X { 1, 2, 127 }) \cup ({ 2 } \X { 1, 3 })

(* a line of the raw file: unit, cycle, three settings, 21 sensors *)
RawLine(unit_nr, time_cycles, s_2) ==
    << unit_nr, time_cycles, 0, 0, 100, 518, s_2 >> \o [k \in 1..19 |-> 2]

(* files of up to MaxRows lines in which every unit's cycles increase *)
ShortFiles ==
    UNION { { [i \in 1..n |-> RawLine(rows[i][1][1], rows[i][1][2], rows[i][2])] :
                rows \in { r \in [1..n -> RowKeys \X SensorValues] :
                             \A i, j \in 1..n :
                                (i < j /\ r[i][1][1] = r[j][1][1])
                                => r[i][1][2] < r[j][1][2] } } :
            n \in 1..MaxRows }

(* a unit with more cycles than the rolling window, followed by another *)
LongFile ==
    << RawLine(1, 1, 1), RawLine(1, 2, 3), RawLine(1, 3, 1), RawLine(1, 4, 1),
       RawLine(1, 5, 3), RawLine(1, 6, 3), RawLine(1, 7, 1),
       RawLine(2, 1, 3), RawLine(2, 2, 1) >>

TrainFiles == ShortFiles \cup { LongFile }

(* train_model of src/train_model.py *)
train_model(use_rolling_features, use_normalized_features) ==
    /\ df = None
    /\ df' = Some(load_and_process_data(train_data, use_rolling_features,
                                        use_normalized_features, TRUE))
    /\ feature_cols' = Some(get_feature_columns(df'[1].columns,
                                                use_rolling_features,
                                                use_normalized_features, FALSE))
    /\ model_file' = "ok"
    /\ model_features' = feature_cols'
    /\ feature_file' = TextFile(JoinLines(feature_cols'[1]))
    /\ UNCHANGED << server, globals, recent_predictions, now, dmatrix, response,
                    pending, train_data, stats, backups, retrain_log >>

(* the ZenML pipeline: clean_data, then the feature list of its train step *)
training_pipeline ==
    /\ df = None
    /\ df' = Some(clean_data(ingest_data(train_data)))
    /\ feature_cols' = Some(steps_get_feature_columns(df'[1].columns))
    /\ UNCHANGED << server, disk, globals, recent_predictions, now, dmatrix,
                    response, pending, train_data, offline >>

InitTrain ==
    /\ server = "starting"
    /\ model_file = "missing"
    /\ feature_file = MissingFile
    /\ model = None
    /\ EXPECTED_FEATURES = None
    /\ recent_predictions = << >>
    /\ now = 0
    /\ dmatrix = None
    /\ response = None
    /\ pending = [c \in Clients |-> None]
    /\ train_data \in TrainFiles
    /\ df = None
    /\ feature_cols = None
    /\ InitOffline

(* the service is started once training has written its files *)
NextTrain ==
    \/ \E use_rolling_features, use_normalized_features \in BOOLEAN :
          train_model(use_rolling_features, use_normalized_features)
    \/ training_pipeline
    \/ model_file = "ok" /\ load_model
    \/ /\ now < 1
       /\ predict_rul(DriftedReading, Returns(100000))
       /\ UNCHANGED << pending, training, offline >>

SpecTrain == InitTrain /\ [][NextTrain]_vars

----------------------------------------------------------------------------
(* The service started on the files a training run left, whatever its      *)
(* flags, or on the list kept by hand, and fed readings whose predictions  *)
(* lie below, inside, above and on the limits of the range and the bands   *)

(* feature_columns.txt as train_model leaves it for each pair of flags *)
FlagFiles ==
    { TextFile(JoinLines(get_feature_columns(
                   ProcessedColumns(use_rolling_features, use_normalized_features, TRUE),
                   use_rolling_features, use_normalized_features, FALSE))) :
        use_rolling_features \in BOOLEAN, use_normalized_features \in BOOLEAN }

(* what model.predict returns, in thousandths of a cycle *)
RulOutputs == { -5000, 0, 29990, 30000, 79990, 80000, 125000, 200000 }

InferOutcomes == { Returns(v) : v \in RulOutputs } \cup { Raises }

(* records of a run of this service *)
MaxInferRecords == 1

InitInfer == InitOn({ "ok" }, FlagFiles \cup { LegacyFile })

NextInfer ==
    \/ load_model
    \/ \E body \in Readings : \E outcome \in InferOutcomes :
          /\ now < MaxInferRecords
          /\ predict_rul(body, outcome)
          /\ UNCHANGED << pending, training, offline >>

SpecInfer == InitInfer /\ [][NextInfer]_vars

----------------------------------------------------------------------------
(* The functions of data_preprocessing.py called on a frame, next to the   *)
(* service that answers a reading                                          *)

(* the history of one unit, cycle after cycle, of up to MaxRows cycles *)
BatchFiles ==
    UNION { { [i \in 1..n |-> RawLine(1, i, values[i])] :
                values \in [1..n -> SensorValues] } : n \in 1..MaxRows }

(* readings that were not in the frame the statistics were fitted on *)
HeldOutFile == << RawLine(3, 1, 5), RawLine(3, 2, 9) >>

(* the key sensors the schema of a frame may lack *)
MissingSensors == { {}, { "s_21" }, { "s_2", "s_21" } }

(* the frame of a file whose schema lacks some sensors *)
InputFrame(lines, missing) == DropFrameColumns(load_raw_data(lines), missing)

(* create_rolling_features(df, KEY_SENSORS) *)
rolling_call ==
    /\ df # None
    /\ df' = Some(create_rolling_features(df[1], KEY_SENSORS, ROLLING_WINDOW))
    /\ UNCHANGED << server, disk, globals, recent_predictions, now, dmatrix,
                    response, pending, train_data, feature_cols, offline >>

(* df, stats = normalize_sensors(df, KEY_SENSORS, fit=True) *)
normalize_fit ==
    /\ df # None
    /\ stats = None
    /\ df' = Some(normalize_sensors(df[1], KEY_SENSORS, TRUE, None)[1])
    /\ stats' = Some(normalize_sensors(df[1], KEY_SENSORS, TRUE, None)[2])
    /\ UNCHANGED << server, disk, globals, recent_predictions, now, dmatrix,
                    response, pending, train_data, feature_cols,
                    model_features, backups, retrain_log >>

(* df, stats = normalize_sensors(new_df, KEY_SENSORS, fit=False, stats=stats) *)
normalize_apply(missing) ==
    /\ stats # None
    /\ df' = Some(normalize_sensors(InputFrame(HeldOutFile, missing),
                                    KEY_SENSORS, FALSE, stats)[1])
    /\ stats' = Some(normalize_sensors(InputFrame(HeldOutFile, missing),
                                       KEY_SENSORS, FALSE, stats)[2])
    /\ UNCHANGED << server, disk, globals, recent_predictions, now, dmatrix,
                    response, pending, train_data, feature_cols,
                    model_features, backups, retrain_log >>

InitBatch ==
    /\ server = "starting"
    /\ model_file = "ok"
    /\ feature_file \in { TrainedFile, LegacyFile }
    /\ model = None
    /\ EXPECTED_FEATURES = None
    /\ recent_predictions = << >>
    /\ now = 0
    /\ dmatrix = None
    /\ response = None
    /\ pending = [c \in Clients |-> None]
    /\ train_data \in BatchFiles
    /\ df \in { Some(InputFrame(train_data, missing)) : missing \in MissingSensors }
    /\ feature_cols = None
    /\ InitOffline

NextBatch ==
    \/ rolling_call
    \/ normalize_fit
    \/ \E missing \in MissingSensors : normalize_apply(missing)
    \/ load_model
    \/ /\ now < 1
       /\ predict_rul(BaselineReading, Returns(100000))
       /\ UNCHANGED << pending, training, offline >>

SpecBatch == InitBatch /\ [][NextBatch]_vars

----------------------------------------------------------------------------
(* Loading a raw file, well formed or not                                  *)

(* the lines a file may hold at cycle i: complete, without its last        *)
(* field, or with the two identifiers alone                                *)
LoadLines(i) ==
    { RawLine(1, i, v) : v \in SensorValues }
    \cup { SubSeq(RawLine(1, i, 1), 1, Len(RawColumns) - 1),
           SubSeq(RawLine(1, i, 1), 1, 2) }

(* files of up to MaxRows lines *)
LoadFiles ==
    UNION { { lines \in [1..n -> UNION { LoadLines(i) : i \in 1..n }] :
                \A i \in 1..n : lines[i] \in LoadLines(i) } : n \in 1..MaxRows }

(* df = load_raw_data(data_path) *)
load_file ==
    /\ df = None
    /\ df' = Some(load_raw_data(train_data))
    /\ UNCHANGED << server, disk, globals, recent_predictions, now, dmatrix,
                    response, pending, train_data, feature_cols, offline >>

(* the ingest step of the pipeline *)
ingest_step ==
    /\ df = None
    /\ df' = Some(ingest_data(train_data))
    /\ UNCHANGED << server, disk, globals, recent_predictions, now, dmatrix,
                    response, pending, train_data, feature_cols, offline >>

InitLoad ==
    /\ server = "starting"
    /\ model_file = "missing"
    /\ feature_file = MissingFile
    /\ model = None
    /\ EXPECTED_FEATURES = None
    /\ recent_predictions = << >>
    /\ now = 0
    /\ dmatrix = None
    /\ response = None
    /\ pending = [c \in Clients |-> None]
    /\ train_data \in LoadFiles
    /\ df = None
    /\ feature_cols = None
    /\ InitOffline

NextLoad == load_file \/ ingest_step

SpecLoad == InitLoad /\ [][NextLoad]_vars

----------------------------------------------------------------------------
(* run_simulation of simulate_drift.py: the monitoring is reset, n_normal  *)
(* readings are sent, then n_drift readings with every sensor multiplied   *)
(* by 1.5; the drift status is asked for after each phase                  *)

n_normal == 25
n_drift == 25

InitScenario == InitOn({ "ok" }, { TrainedFile })

NextScenario ==
    \/ load_model
    \/ now = 0 /\ reset_monitoring /\ UNCHANGED << pending, training, offline >>
    \/ /\ now < n_normal
       /\ predict_rul(BaselineReading, Returns(100000))
       /\ UNCHANGED << pending, training, offline >>
    \/ /\ now >= n_normal
       /\ now < n_normal + n_drift
       /\ predict_rul(DriftedReading, Returns(100000))
       /\ UNCHANGED << pending, training, offline >>
    \/ monitor_drift /\ UNCHANGED << pending, training, offline >>

SpecScenario == InitScenario /\ [][NextScenario]_vars

----------------------------------------------------------------------------
(* retrain.py, run next to the service it asks for the drift status        *)

(* check_drift_status: drift_detected of GET /monitoring; False when the   *)
(* request fails                                                           *)
check_drift_status ==
    IF server = "serving" THEN Report(recent_predictions).drift_detected
    ELSE FALSE

(* where a run of run_retrain may raise: nowhere, in load_training_data,   *)
(* in train_model, in save_model (at the rename of the old model, at the   *)
(* write of the new one, at the write of the feature list), in             *)
(* log_retrain or in log_to_mlflow                                         *)
RetrainFailures ==
    { "none", "load", "train", "rename", "save", "features", "log", "mlflow" }

(* run_retrain(reason).  Its steps run in order up to the one that raises; *)
(* a missing or empty training file raises in load_training_data           *)
run_retrain(reason, failure) ==
    LET loaded  == train_data # << >> /\ failure # "load"
        trained == loaded /\ failure # "train"
        renamed == trained /\ failure # "rename"
        saved   == renamed /\ failure # "save"
        written == saved /\ failure # "features"
        logged  == written /\ failure # "log"
    IN  /\ IF loaded
           THEN /\ df' = Some(load_and_process_data(train_data, TRUE, TRUE, TRUE))
                /\ feature_cols' = Some(get_feature_columns(df'[1].columns,
                                                            TRUE, TRUE, FALSE))
           ELSE UNCHANGED << df, feature_cols >>
        /\ backups' = IF renamed /\ model_file # "missing"
                      THEN backups + 1 ELSE backups
        /\ IF saved THEN model_file' = "ok" /\ model_features' = feature_cols'
           ELSE IF renamed
           THEN model_file' \in { "missing", "corrupt" } /\ model_features' = None
           ELSE UNCHANGED << model_file, model_features >>
        /\ IF written THEN feature_file' = TextFile(JoinLines(feature_cols'[1]))
           ELSE IF saved THEN feature_file' \in { feature_file, EmptyFile }
           ELSE UNCHANGED feature_file
        /\ retrain_log' = IF logged THEN Append(retrain_log, [reason |-> reason])
                          ELSE retrain_log
        /\ UNCHANGED << server, globals, recent_predictions, now, dmatrix,
                        response, pending, train_data, stats >>

(* main: python retrain.py [--check-only | --force] *)
retrain_main(args, failure) ==
    IF args = "--check-only"
    THEN (* check_and_retrain *)
         IF check_drift_status THEN run_retrain("drift_detected", failure)
         ELSE UNCHANGED vars
    ELSE IF args = "--force"
    THEN run_retrain("manual", failure)
    ELSE IF check_drift_status THEN run_retrain("drift_detected", failure)
         ELSE UNCHANGED vars

(* runs of retrain.py that rename a model *)
MaxRetrains == 2

(* a disk left by a training run, or an empty one; the training file may   *)
(* be missing                                                              *)
InitRetrain ==
    /\ server = "starting"
    /\ \/ /\ model_file = "ok"
          /\ feature_file \in FlagFiles
          /\ model_features = Some(ReadFeatureNames(feature_file.content))
       \/ /\ model_file = "missing"
          /\ feature_file = MissingFile
          /\ model_features = None
    /\ model = None
    /\ EXPECTED_FEATURES = None
    /\ recent_predictions = << >>
    /\ now = 0
    /\ dmatrix = None
    /\ response = None
    /\ pending = [c \in Clients |-> None]
    /\ train_data \in { << >>, << RawLine(1, 1, 1), RawLine(1, 2, 3) >> }
    /\ df = None
    /\ feature_cols = None
    /\ stats = None
    /\ backups = 0
    /\ retrain_log = << >>

NextRetrain ==
    \/ load_model
    \/ /\ now < 1
       /\ \E body \in { BaselineReading, DriftedReading } :
             predict_rul(body, Returns(100000))
       /\ UNCHANGED << pending, training, offline >>
    \/ \E args \in { "--check-only", "--force", "" } :
       \E failure \in RetrainFailures :
          backups < MaxRetrains /\ retrain_main(args, failure)

SpecRetrain == InitRetrain /\ [][NextRetrain]_vars

----------------------------------------------------------------------------
(* Properties of the drift window *)

IsResponse(endpoint) ==
    response # None /\ response[1].endpoint = endpoint

Answered(endpoint, status_code) ==
    IsResponse(endpoint) /\ response[1].status_code = status_code

Min(a, b) == IF a <= b THEN a ELSE b

(* C1: in every state reachable from the empty window of process start by *)
(* predict requests, monitoring reports and resets, the drift window      *)
(* holds at most 100 entries.                                             *)
C1_WindowBounded == Len(recent_predictions) <= MAXLEN

(* more records were made than the window holds, and the window is full *)
C1_Witness ==
    /\ now > MAXLEN
    /\ Len(recent_predictions) = MAXLEN
    /\ IsResponse("/monitoring")

(* the entries of the window are the last Len(window) records made, in    *)
(* the order of their arrival                                             *)
LastRecordsInOrder ==
    \A i \in 1..Len(recent_predictions) :
        recent_predictions[i].timestamp = now - Len(recent_predictions) + i - 1

(* a record on a window of n entries leaves min(n + 1, 100) entries: the  *)
(* new one at the right end and, before it, the old ones but for the      *)
(* oldest of a full window                                                *)
RecordStep ==
    now' = now + 1 =>
        LET n == Len(recent_predictions)
            kept == IF n = MAXLEN THEN Tail(recent_predictions)
                    ELSE recent_predictions
        IN  /\ Len(recent_predictions') = Min(n + 1, MAXLEN)
            /\ recent_predictions'[Len(recent_predictions')].timestamp = now
            /\ SubSeq(recent_predictions', 1, Len(recent_predictions') - 1) = kept

(* C2: after n successful records since startup or the last reset the     *)
(* window holds exactly the last min(n, 100) recorded entries in arrival  *)
(* order; a record on a full window evicts the oldest entry and nothing   *)
(* else, so 150 insertions in a row leave the 100 most recent.            *)
C2_LastRecords == [](LastRecordsInOrder) /\ [][RecordStep]_vars

(* 150 records were made and the window holds records 51 to 150 *)
C2_Witness ==
    /\ now = 150
    /\ Len(recent_predictions) = MAXLEN
    /\ recent_predictions[1].timestamp = 50
    /\ recent_predictions[MAXLEN].timestamp = 149

(* what the handler of the request of client c does to the window *)
ServedOnce(c) ==
    LET request == pending[c][1]
        n       == Len(recent_predictions)
        kept    == IF n = MAXLEN THEN Tail(recent_predictions)
                   ELSE recent_predictions
    IN  IF request.endpoint = "/predict" /\ Answered("/predict", 200)'
        THEN LET entry == recent_predictions'[Len(recent_predictions')]
             IN  /\ recent_predictions' = Append(kept, entry)
                 /\ entry.timestamp = now
                 /\ entry.features = InputData[request.body].row
                 /\ now' = now + 1
        ELSE IF request.endpoint = "/monitoring/reset"
        THEN recent_predictions' = << >> /\ now' = now
        ELSE UNCHANGED << recent_predictions, now >>

(* a step either accepts a request and leaves the window alone, or        *)
(* answers the request of one client                                      *)
ConcurrentStep ==
    \A c \in Clients :
        /\ pending[c] = None => (pending'[c] # None => UNCHANGED recent_predictions)
        /\ (pending[c] # None /\ pending'[c] = None) => ServedOnce(c)

(* C3: under any interleaving of concurrent predict requests, reports and *)
(* resets on the shared window, the window never exceeds 100 entries,     *)
(* the entry of every successful request is appended exactly once, and    *)
(* entries are evicted in the order in which they were appended.          *)
C3_ConcurrentWindow ==
    /\ [](Len(recent_predictions) <= MAXLEN /\ LastRecordsInOrder)
    /\ [][ConcurrentStep]_vars

(* both clients have a request in flight on a full window that has        *)
(* already evicted entries                                                *)
C3_Witness ==
    /\ \A c \in Clients : pending[c] # None
    /\ Len(recent_predictions) = MAXLEN
    /\ recent_predictions[1].timestamp > 0
    /\ \E i \in 1..MAXLEN :
          recent_predictions[i].features = InputData[DriftedReading].row

(* C4: a predict request that fails (a required field is missing, the     *)
(* model is not loaded, or an exception occurs during feature assembly or *)
(* regressor invocation) leaves the window unchanged; one that succeeds   *)
(* appends exactly one entry.                                             *)
C4_FailedPredictKeepsWindow ==
    [][IsResponse("/predict")' =>
          IF Answered("/predict", 200)'
          THEN \E body \in Readings :
                  /\ recent_predictions' =
                        Append(recent_predictions, recent_predictions'[Len(recent_predictions) + 1])
                  /\ recent_predictions'[Len(recent_predictions) + 1].features = InputData[body].row
                  /\ recent_predictions'[Len(recent_predictions) + 1].timestamp = now
          ELSE /\ response'[1].status_code \in { 422, 503, 500 }
               /\ UNCHANGED recent_predictions]_vars

(* the regressor raised on a window that holds two entries *)
C4_Witness ==
    /\ Answered("/predict", 500)
    /\ Len(recent_predictions) = 2

----------------------------------------------------------------------------
(* Properties of the drift report *)

(* the sum of column f over the window, in ticks *)
ColumnSum(f) ==
    LET S[i \in 0..Len(recent_predictions)] ==
            IF i = 0 THEN 0
            ELSE S[i - 1] + recent_predictions[i].features[f][1]
    IN  S[Len(recent_predictions)]

(* |mean - baseline| / |baseline| as a fraction of integers *)
ExpectedDeviation(f) ==
    LET n == Len(recent_predictions)
        b == BASELINE_STATS[f]
    IN  << Abs(ColumnSum(f) - n * b), n * Abs(b) >>

(* deviation > 0.20 and deviation = 0.20, both sides multiplied out *)
ExceedsThreshold(f) == 5 * ExpectedDeviation(f)[1] > ExpectedDeviation(f)[2]
AtThreshold(f) == 5 * ExpectedDeviation(f)[1] = ExpectedDeviation(f)[2]

ReportedWindow == IsResponse("/monitoring") /\ recent_predictions # << >>

(* C5: for every non-empty window the report lists a feature as drifted   *)
(* exactly when its deviation is strictly greater than 0.20 and sets      *)
(* drift_detected exactly when the maximum deviation is; a deviation of   *)
(* exactly 0.20 is not drift, and drift_detected holds if and only if the *)
(* list of drifted features is not empty.                                 *)
C5_DriftThreshold ==
    ReportedWindow =>
        LET body    == response[1].body
            drifted == body.metrics.drifted_features
            listed  == { drifted[i].feature : i \in 1..Len(drifted) }
        IN  /\ listed = { f \in SeqToSet(BASELINE_KEYS) : ExceedsThreshold(f) }
            /\ Len(drifted) = Cardinality(listed)
            /\ \A f \in SeqToSet(BASELINE_KEYS) : AtThreshold(f) => f \notin listed
            /\ body.drift_detected =
                  (\E f \in SeqToSet(BASELINE_KEYS) : ExceedsThreshold(f))
            /\ body.drift_detected = (drifted # << >>)

(* a report on a window whose largest deviation is exactly 0.20 *)
C5_Witness ==
    /\ ReportedWindow
    /\ \E f \in SeqToSet(BASELINE_KEYS) : AtThreshold(f)
    /\ ~ \E f \in SeqToSet(BASELINE_KEYS) : ExceedsThreshold(f)
    /\ ~response[1].body.drift_detected

(* C6: for every feature of BASELINE_STATS the report takes recent_mean   *)
(* as the arithmetic mean of the feature over the entries of the window,  *)
(* and the deviation as |recent_mean - baseline| / |baseline| for a       *)
(* non-zero baseline and as |recent_mean - baseline| for a baseline of 0; *)
(* no report divides by zero.                                             *)
C6_MeanAndDeviation ==
    ReportedWindow =>
        \A f \in SeqToSet(BASELINE_KEYS) :
            LET n    == Len(recent_predictions)
                mean == << ColumnSum(f), n * Scale(f) >>
                stat == response[1].body.metrics.feature_statistics[f]
                zero == << 0, Scale(f) >>
            IN  /\ Reduce(RecentMeans(recent_predictions)[f]) = Reduce(mean)
                /\ stat.recent = Round(mean, 4)
                /\ BASELINE_STATS[f] # 0
                /\ Deviation(mean, BaselineValue(f))[2] # 0
                /\ Reduce(Deviation(mean, BaselineValue(f)))
                      = Reduce(ExpectedDeviation(f))
                /\ stat.deviation_pct = Round(ExpectedDeviation(f), 4)
                /\ Deviation(mean, zero)[2] # 0
                /\ Reduce(Deviation(mean, zero)) = Reduce(RatAbs(mean))

(* a report on a window of different readings, with a deviation that is   *)
(* neither 0 nor a whole multiple of the baseline                         *)
C6_Witness ==
    /\ ReportedWindow
    /\ Len(recent_predictions) = 3
    /\ recent_predictions[1].features # recent_predictions[2].features
    /\ response[1].body.metrics.feature_statistics["s_2"].deviation_pct
          \notin { 0, 2000, 5000 }

(* C7: on an empty window (at startup or right after a reset) the report  *)
(* does not fail and is the empty report: drift_detected false,           *)
(* recent_requests 0 and no feature metrics.                              *)
C7_EmptyReport ==
    (IsResponse("/monitoring") /\ recent_predictions = << >>) =>
        /\ response[1].status_code = 200
        /\ response[1].body.drift_detected = FALSE
        /\ response[1].body.recent_requests = 0
        /\ DOMAIN response[1].body.metrics = {}

(* a report asked for after records were made and then cleared *)
C7_Witness ==
    /\ IsResponse("/monitoring")
    /\ recent_predictions = << >>
    /\ now > 0

(* C8: reset leaves the window empty whatever its prior size (0 to 100    *)
(* entries), and is idempotent: a second reset leaves the state of the    *)
(* first.                                                                 *)
C8_ResetEmpties ==
    IsResponse("/monitoring/reset") =>
        /\ recent_predictions = << >>
        /\ response[1].status_code = 200
        /\ response[1].body.recent_requests = 0
        /\ DequeClear(recent_predictions) = recent_predictions

(* a reset after the window had filled *)
C8_Witness ==
    /\ IsResponse("/monitoring/reset")
    /\ recent_predictions = << >>
    /\ now >= MAXLEN

----------------------------------------------------------------------------
(* Properties of the feature-name list *)

(* the names feature_columns.txt holds, if it is there and can be read *)
PersistedList ==
    IF feature_file.exists /\ feature_file.readable
    THEN Some(ReadFeatureNames(feature_file.content))
    ELSE None

(* the file is gone, cannot be read, or does not hold the names the model *)
(* was trained on                                                         *)
FeatureListLost ==
    \/ PersistedList = None
    \/ PersistedList # Some(TrainedFeatures)

(* C9: when the persisted feature-name list is missing or corrupt at the  *)
(* initialization of the inference path, the service refuses to serve:    *)
(* startup fails and no prediction is ever answered, no fallback list is  *)
(* used.                                                                  *)
C9_RefusesToServe ==
    FeatureListLost => ~Answered("/predict", 200)

(* C10: for every successful predict request the vector handed to the     *)
(* regressor has exactly the names of the persisted feature-name list, in *)
(* the same order and with the same length; every expected name the       *)
(* feature engineering did not compute is filled with 0.0, and no name    *)
(* outside the list is passed.                                            *)
C10_VectorMatchesList ==
    (Answered("/predict", 200) /\ PersistedList # None) =>
        LET names  == PersistedList[1]
            matrix == dmatrix[1]
        IN  /\ matrix.feature_names = names
            /\ Len(matrix.data) = Len(names)
            /\ \A i \in 1..Len(matrix.data) :
                  (\A body \in Readings :
                      names[i] \notin DOMAIN EngineeredData[body].row)
                  => matrix.data[i] = Rat(0, 1)

----------------------------------------------------------------------------
(* Training and batch preprocessing                                        *)

(* C11: the list of feature names train_model wrote, one name per line, is *)
(* the list load_model holds after startup, name for name and in order,    *)
(* whichever flags get_feature_columns was called with.                    *)
C11_RoundTrip ==
    (server = "serving" /\ feature_cols # None /\ feature_file.exists)
        => EXPECTED_FEATURES = feature_cols

C11_Witness ==
    /\ server = "serving"
    /\ feature_cols # None
    /\ feature_file = TextFile(JoinLines(feature_cols[1]))
    /\ EXPECTED_FEATURES = feature_cols
    /\ "s_2_norm" \in SeqToSet(feature_cols[1])
    /\ "s_2_mean" \notin SeqToSet(feature_cols[1])

(* the place of a name in the order of Python's string comparison *)
Rank(name) == CHOOSE k \in 1..Len(NAME_ORDER) : NAME_ORDER[k] = name

(* ascending with no name twice: each name comes before the next *)
StrictlyAscending(names) ==
    \A i \in 1..(Len(names) - 1) : Rank(names[i]) < Rank(names[i + 1])

DerivedSuffixes == { "_mean", "_std", "_norm" }

(* the key sensors that are columns of the processed frame *)
KeySensorsPresent(frame) ==
    { s \in SeqToSet(KEY_SENSORS) : s \in SeqToSet(frame.columns) }

(* what the list holds whatever the flags of the training run *)
ListWellFormed(frame, names) ==
    /\ StrictlyAscending(names)
    /\ \A c \in SeqToSet(frame.columns) :
          StartsWith(c, "setting_") => c \in SeqToSet(names)
    /\ SeqToSet(SETTINGS) \subseteq SeqToSet(names)
    /\ SeqToSet(names) \cap SeqToSet(SENSOR_COLUMNS) = { }
    /\ SeqToSet(names) \cap { "unit_nr", "time_cycles", "RUL", "RUL_clipped" } = { }

(* C12, as stated: the list is sorted without duplicates, holds the        *)
(* setting_ columns, holds _mean, _std and _norm of every key sensor       *)
(* present, and holds no raw sensor, unit_nr, time_cycles, RUL or          *)
(* RUL_clipped.                                                            *)
C12_AsStated ==
    feature_cols # None =>
        /\ ListWellFormed(df[1], feature_cols[1])
        /\ \A s \in KeySensorsPresent(df[1]) : \A suffix \in DerivedSuffixes :
              (s \o suffix) \in SeqToSet(feature_cols[1])

(* C12, amended: the list is sorted without duplicates, holds the setting_ *)
(* columns and no raw sensor, unit_nr, time_cycles, RUL or RUL_clipped;    *)
(* for every key sensor present it holds exactly the _mean, _std and _norm *)
(* columns the training run built, which are all three only when rolling   *)
(* and normalized features are both enabled.                               *)
C12_FeatureList ==
    feature_cols # None =>
        /\ ListWellFormed(df[1], feature_cols[1])
        /\ \A s \in KeySensorsPresent(df[1]) : \A suffix \in DerivedSuffixes :
              (s \o suffix) \in SeqToSet(feature_cols[1])
                  <=> (s \o suffix) \in SeqToSet(df[1].columns)
        /\ ( { "s_2_mean", "s_2_norm" } \subseteq SeqToSet(df[1].columns)
               => \A s \in KeySensorsPresent(df[1]) : \A suffix \in DerivedSuffixes :
                     (s \o suffix) \in SeqToSet(feature_cols[1]) )

C12_Witness ==
    /\ feature_cols # None
    /\ Len(feature_cols[1]) = Len(SETTINGS) + 3 * Len(KEY_SENSORS)
    /\ feature_cols[1][1] = "s_11_mean"
    /\ "s_2_std" \in SeqToSet(feature_cols[1])
    /\ feature_file.exists

(* the constant sensors and the names of the features derived from them *)
ConstantNames ==
    SeqToSet(CONSTANT_SENSORS)
    \cup { s \o suffix : s \in SeqToSet(CONSTANT_SENSORS), suffix \in DerivedSuffixes }

(* C13: the processed training frame holds no constant sensor and no       *)
(* _mean, _std or _norm of one, and asking the rolling or the normalizing  *)
(* step for the constant sensors builds nothing; the feature vector handed *)
(* to the regressor and the snapshots kept in the drift window name no     *)
(* constant sensor either.                                                 *)
C13_ConstantSensorsDropped ==
    /\ df # None =>
          /\ SeqToSet(df[1].columns) \cap ConstantNames = { }
          /\ create_rolling_features(df[1], CONSTANT_SENSORS, ROLLING_WINDOW).columns
                = df[1].columns
          /\ normalize_sensors(df[1], CONSTANT_SENSORS, TRUE, None)
                = << df[1], EmptyDict >>
    /\ dmatrix # None =>
          SeqToSet(dmatrix[1].feature_names) \cap ConstantNames = { }
    /\ \A i \in 1..Len(recent_predictions) :
          DOMAIN recent_predictions[i].features \cap ConstantNames = { }

C13_Witness ==
    /\ df # None
    /\ { "s_2_mean", "s_2_norm" } \subseteq SeqToSet(df[1].columns)
    /\ dmatrix # None
    /\ "s_2_mean" \in SeqToSet(dmatrix[1].feature_names)
    /\ Len(recent_predictions) = 1
    /\ "s_2" \in DOMAIN recent_predictions[1].features

----------------------------------------------------------------------------
(* Single-reading inference                                                *)

(* the response is the answer to a prediction that was recorded *)
Predicted ==
    /\ response # None
    /\ response[1].endpoint = "/predict"
    /\ response[1].status_code = 200
    /\ recent_predictions # << >>

(* the value the feature vector holds under a name *)
VectorValue(matrix, name) ==
    matrix.data[CHOOSE k \in 1..Len(matrix.feature_names) : matrix.feature_names[k] = name]

(* (value - baseline mean) / (5% of |baseline mean|), or / 1.0 *)
ExpectedNorm(x, baseline) ==
    IF RatIsZero(baseline) THEN RatSub(x, baseline)
    ELSE RatDiv(RatSub(x, baseline), RatDiv(RatAbs(baseline), Rat(20, 1)))

(* C14: in the vector of an answered prediction, for every key sensor of   *)
(* the reading, the _mean feature is the raw value, the _std feature is 0  *)
(* and the _norm feature is (value - baseline mean) divided by 5% of the   *)
(* magnitude of the baseline mean (by 1 when the baseline mean is zero).   *)
C14_SingleReadingFeatures ==
    Predicted =>
        LET reading == recent_predictions[Len(recent_predictions)].features
            names   == SeqToSet(dmatrix[1].feature_names)
        IN  \A s \in SeqToSet(KEY_SENSORS) \cap DOMAIN reading :
               /\ (s \o "_mean") \in names =>
                     RatEq(VectorValue(dmatrix[1], s \o "_mean"), reading[s])
               /\ (s \o "_std") \in names =>
                     RatIsZero(VectorValue(dmatrix[1], s \o "_std"))
               /\ (s \o "_norm") \in names =>
                     RatEq(VectorValue(dmatrix[1], s \o "_norm"),
                           ExpectedNorm(reading[s], BaselineValue(s)))

C14_Witness ==
    /\ Predicted
    /\ { "s_2_mean", "s_2_std", "s_2_norm" } \subseteq SeqToSet(dmatrix[1].feature_names)
    /\ RatEq(VectorValue(dmatrix[1], "s_2_mean"), Rat(96390, 100))
    /\ RatEq(VectorValue(dmatrix[1], "s_2_norm"), Rat(10, 1))
    /\ RatIsZero(VectorValue(dmatrix[1], "s_2_std"))

(* the raw readings as the handler holds them after the constant sensors   *)
(* are dropped                                                             *)
ReadingsAsSent ==
    { [f \in SeqToSet(EngineFeatures) \ SeqToSet(DROPPED_SENSORS) |->
          Rat(body[f], Scale(f))] : body \in Readings }

(* a request of a serving service left the window as it was, or appended   *)
(* one entry to it                                                         *)
WindowKept ==
    \/ recent_predictions' = recent_predictions
    \/ /\ Len(recent_predictions') = Len(recent_predictions) + 1
       /\ SubSeq(recent_predictions', 1, Len(recent_predictions)) = recent_predictions
       /\ recent_predictions'[Len(recent_predictions')].features \in ReadingsAsSent

(* two answered predictions in a row on the same reading *)
SameReadingAgain ==
    /\ Predicted
    /\ Predicted'
    /\ Len(recent_predictions') = Len(recent_predictions) + 1
    /\ recent_predictions'[Len(recent_predictions')].features
          = recent_predictions[Len(recent_predictions)].features

(* C15: a prediction leaves the expected feature names and the entries of  *)
(* the drift window as they were and records the raw reading as it was     *)
(* sent, without any derived column; two predictions on equal readings     *)
(* under the same expected names hand the regressor equal vectors.         *)
C15_PureAdapter ==
    [][ (server = "serving" /\ response' # None /\ response'[1].endpoint = "/predict") =>
          /\ EXPECTED_FEATURES' = EXPECTED_FEATURES
          /\ WindowKept
          /\ SameReadingAgain => dmatrix' = dmatrix ]_vars

C15_Witness ==
    /\ Predicted
    /\ Len(recent_predictions) >= 2
    /\ recent_predictions[1].features = recent_predictions[2].features
    /\ recent_predictions[1].rul # recent_predictions[2].rul
    /\ "s_2_std" \in SeqToSet(dmatrix[1].feature_names)

(* the entry the last answered prediction recorded *)
LastRecorded == recent_predictions[Len(recent_predictions)]

(* a regressor output (in thousandths of a cycle) brought into [0, 125] *)
InRange(v) == IF v < 0 THEN 0 ELSE IF v > 125000 THEN 125000 ELSE v

(* what the claim asks of the state a prediction leaves when the          *)
(* regressor returned v                                                    *)
ClampedAnswer(v) ==
    /\ Predicted
    /\ LastRecorded.rul = InRange(v)
    /\ response[1].body.RUL = Round(Rat(InRange(v), 1000), 2)
    /\ v <= 0 => response[1].body.status = "Critical"
    /\ v >= 125000 => response[1].body.status = "Healthy"

(* the step hands the regressor the vector of this reading *)
VectorOf(body) ==
    dmatrix' = Some(DMatrix(FinalData(EngineeredData[body], EXPECTED_FEATURES)))

(* C16: whatever number the regressor returns, the request is answered     *)
(* 200, and the RUL that is recorded in the drift window, returned and     *)
(* classified is the output brought into [0, 125]: 0 for an output below   *)
(* 0, 125 for an output above 125, the output itself otherwise.            *)
C16_Clamped ==
    [][ \A body \in Readings :
          (server = "serving" /\ VectorOf(body)) =>
              \A v \in RulOutputs :
                  predict_rul(body, Returns(v)) => ClampedAnswer(v)' ]_vars

C16_Witness ==
    /\ Predicted
    /\ LastRecorded.rul = 0
    /\ response[1].body.RUL = Round(Rat(0, 1), 2)
    /\ response[1].body.status = "Critical"
    /\ "s_2_norm" \in SeqToSet(dmatrix[1].feature_names)

(* the band of a clamped RUL, in thousandths of a cycle *)
Band(rul) ==
    IF rul < 30000 THEN "Critical"
    ELSE IF rul < 80000 THEN "Warning"
    ELSE "Healthy"

(* C17: the clamped RUL of every answered prediction is put in one band,   *)
(* by the service and by the dashboard that shows its answer: Critical     *)
(* below 30, Warning from 30 up to but not including 80, Healthy from 80.  *)
C17_Bands ==
    Predicted =>
        /\ response[1].body.status = Band(LastRecorded.rul)
        /\ get_status_class(response[1].body.RUL) = Band(LastRecorded.rul)

----------------------------------------------------------------------------
(* Labels and rolling statistics of the training frame                     *)

(* the processed frame, once training has run *)
Frame == df[1]

(* the rows of the unit of row i *)
UnitRows(i) ==
    { j \in 1..Len(Frame.rows) : Frame.rows[j].unit_nr = Frame.rows[i].unit_nr }

(* the greatest cycle the file holds for the unit of row i *)
LastCycle(i) ==
    CHOOSE m \in { Frame.rows[j].time_cycles : j \in UnitRows(i) } :
        \A j \in UnitRows(i) : Frame.rows[j].time_cycles <= m

(* the lines of the file that belong to one unit *)
LinesOfUnit(unit_nr) == SelectSeq(train_data, LAMBDA line : line[1] = unit_nr)

(* the place of row i among the rows of its unit *)
PlaceInUnit(i) == Cardinality({ j \in UnitRows(i) : j <= i })

(* C18: the RUL of every row is the greatest cycle of its unit minus the   *)
(* cycle of the row; it is never negative, does not grow with the cycle    *)
(* inside a unit, is 0 at the last cycle of the unit and nowhere else, and *)
(* is the same when the file holds the rows of that unit alone.            *)
C18_RulLabel ==
    df # None =>
        \A i \in 1..Len(Frame.rows) :
            /\ Frame.rows[i].RUL = LastCycle(i) - Frame.rows[i].time_cycles
            /\ Frame.rows[i].RUL >= 0
            /\ Frame.rows[i].RUL = 0 <=> Frame.rows[i].time_cycles = LastCycle(i)
            /\ \A j \in UnitRows(i) :
                  Frame.rows[i].time_cycles < Frame.rows[j].time_cycles
                      => Frame.rows[i].RUL >= Frame.rows[j].RUL
            /\ calculate_rul(load_raw_data(LinesOfUnit(Frame.rows[i].unit_nr)))
                  .rows[PlaceInUnit(i)].RUL = Frame.rows[i].RUL

C18_Witness ==
    /\ df # None
    /\ \E i, j \in 1..Len(Frame.rows) :
          /\ Frame.rows[i].unit_nr = 1
          /\ Frame.rows[i].RUL = 126
          /\ Frame.rows[j].unit_nr = 2
          /\ Frame.rows[j].time_cycles = 3
          /\ Frame.rows[j].RUL = 0

(* min(x, 125) *)
MinWithCap(x) == IF x <= 125 THEN x ELSE 125

(* C19: in every row RUL_clipped is min(RUL, 125) and clipping it again    *)
(* changes nothing; the frame keeps the RUL column, with the values it had *)
(* before the clipping, next to the new RUL_clipped column.                *)
C19_Clipped ==
    df # None =>
        /\ { "RUL", "RUL_clipped" } \subseteq SeqToSet(Frame.columns)
        /\ \A i \in 1..Len(Frame.rows) :
              /\ Frame.rows[i].RUL_clipped = MinWithCap(Frame.rows[i].RUL)
              /\ ClipUpper(Frame.rows[i].RUL_clipped, RUL_CAP) = Frame.rows[i].RUL_clipped
              /\ Frame.rows[i].RUL
                    = calculate_rul(load_raw_data(train_data)).rows[i].RUL

C19_Witness ==
    /\ df # None
    /\ \E i, j, k \in 1..Len(Frame.rows) :
          /\ Frame.rows[i].RUL = 126 /\ Frame.rows[i].RUL_clipped = 125
          /\ Frame.rows[j].RUL = 125 /\ Frame.rows[j].RUL_clipped = 125
          /\ Frame.rows[k].RUL = 0 /\ Frame.rows[k].RUL_clipped = 0

(* the file with sensor s_2 set to v in every line of the unit of line i   *)
(* that comes at a later cycle                                             *)
ChangedAfter(i, v) ==
    [k \in 1..Len(train_data) |->
        IF /\ train_data[k][1] = train_data[i][1]
           /\ train_data[k][2] > train_data[i][2]
        THEN [train_data[k] EXCEPT ![7] = v]
        ELSE train_data[k]]

(* the rolling columns of s_2 on a file *)
RolledS2(lines) ==
    create_rolling_features(load_raw_data(lines), << "s_2" >>, ROLLING_WINDOW)

(* the frame holds the rolling statistics *)
Rolled == df # None /\ "s_2_mean" \in SeqToSet(Frame.columns)

(* C20: the rolling mean and the rolling standard deviation of a row are   *)
(* the same when the sensor values of every later cycle of its unit are    *)
(* replaced: they depend on no cycle after their own.                      *)
C20_Causal ==
    [][ (df = None /\ df' # None /\ Rolled') =>
          \A i \in 1..Len(train_data) : \A v \in { 5, 9 } :
              LET changed == RolledS2(ChangedAfter(i, v))
              IN  \A k \in 1..Len(train_data) :
                     (/\ train_data[k][1] = train_data[i][1]
                      /\ train_data[k][2] <= train_data[i][2])
                     => /\ changed.rows[k]["s_2_mean"] = Frame'.rows[k]["s_2_mean"]
                        /\ changed.rows[k]["s_2_std"] = Frame'.rows[k]["s_2_std"] ]_vars

C20_Witness ==
    /\ Rolled
    /\ Len(Frame.rows) >= 7
    /\ Frame.rows[1]["s_2_mean"] = Rat(1, 1)
    /\ Frame.rows[2]["s_2_mean"] = Rat(2, 1)
    /\ Frame.rows[2]["s_2_std"] = Sqrt(Rat(2, 1))
    /\ Frame.rows[7]["s_2_mean"] = Rat(9, 5)
    /\ Frame.rows[1]["s_2_std"] = Sqrt(Rat(0, 1))

(* the lines of the file for unit u at the cycles lo..hi *)
LinesAtCycles(u, lo, hi) ==
    SelectSeq(train_data, LAMBDA line : line[1] = u /\ line[2] >= lo /\ line[2] <= hi)

(* the sum of sensor s_2 over a list of lines *)
SumS2(lines) ==
    LET S[k \in 0..Len(lines)] == IF k = 0 THEN 0 ELSE S[k - 1] + lines[k][7]
    IN  S[Len(lines)]

(* the history of the unit of line i is contiguous up to line i: its lines *)
(* so far are at the cycles 1, 2, ... in this order                        *)
ContiguousUpTo(i) ==
    \A k \in 1..i :
        train_data[k][1] = train_data[i][1]
            => train_data[k][2]
                 = Cardinality({ j \in 1..k : train_data[j][1] = train_data[i][1] })

(* min(5, c) *)
MinWithWindow(c) == IF c < 5 THEN c ELSE 5

(* C21: for a unit whose cycles are 1, 2, ... in order, the rolling mean   *)
(* of sensor s_2 at cycle c is the sum of the unit's own values at its     *)
(* last min(5, c) cycles up to c, divided by min(5, c); no value of        *)
(* another unit enters it, whatever rows come before the unit's rows.      *)
C21_OwnUnitWindow ==
    Rolled =>
        \A i \in 1..Len(train_data) :
            ContiguousUpTo(i) =>
                LET u == train_data[i][1]
                    c == train_data[i][2]
                    w == MinWithWindow(c)
                    own == LinesAtCycles(u, c - w + 1, c)
                IN  /\ Len(own) = w
                    /\ Frame.rows[i]["s_2_mean"] = Reduce(Rat(SumS2(own), w))

C21_Witness ==
    /\ Rolled
    /\ Len(Frame.rows) >= 9
    /\ ContiguousUpTo(8)
    /\ Frame.rows[7].unit_nr = 1 /\ Frame.rows[7]["s_2_mean"] = Rat(9, 5)
    /\ Frame.rows[8].unit_nr = 2 /\ Frame.rows[8].time_cycles = 1
    /\ Frame.rows[8]["s_2_mean"] = Rat(3, 1)
    /\ Frame.rows[9]["s_2_mean"] = Rat(2, 1)

----------------------------------------------------------------------------
(* Normalization statistics                                                *)

(* the values of column c of a frame *)
ColumnValues(frame, c) == { frame.rows[i][c] : i \in 1..Len(frame.rows) }

(* a standard deviation that can be divided by: the root of a positive     *)
(* rational                                                                *)
Divisible(std_val) == std_val.sqrt_of[1] > 0 /\ std_val.sqrt_of[2] > 0

(* the statistics fitted are the ones a fit on the frame gives: no entry   *)
(* for a sensor that is no column; for a column, a std that can be divided *)
(* by, which is 1.0 where the std of the column is zero (a column of one   *)
(* value) or undefined (a single row), and the std of the column elsewhere *)
FittedOn(frame, fitted) ==
    /\ DOMAIN fitted = SeqToSet(KEY_SENSORS) \cap SeqToSet(frame.columns)
    /\ \A s \in DOMAIN fitted :
          LET of_column == StdOf(frame, s, [j \in 1..Len(frame.rows) |-> j])
          IN  /\ Divisible(fitted[s].std)
              /\ Cardinality(ColumnValues(frame, s)) = 1
                    => fitted[s].std = Sqrt(Rat(1, 1))
              /\ fitted[s].std = IF of_column = NaN \/ of_column = Sqrt(Rat(0, 1))
                                 THEN Sqrt(Rat(1, 1))
                                 ELSE of_column

(* every _norm column of the frame is the difference from the mean of      *)
(* the statistics, divided by their std                                    *)
NormalizedWith(frame, used) ==
    \A s \in SeqToSet(KEY_SENSORS) :
        (s \o "_norm") \in SeqToSet(frame.columns) =>
            /\ s \in DOMAIN used
            /\ \A i \in 1..Len(frame.rows) :
                  /\ frame.rows[i][s \o "_norm"].divided_by = used[s].std
                  /\ Divisible(frame.rows[i][s \o "_norm"].divided_by)
                  /\ frame.rows[i][s \o "_norm"].difference
                        = Reduce(RatSub(Rat(frame.rows[i][s], 1), used[s].mean))

(* C22: a fit stores a strictly positive std for every sensor it fits,     *)
(* 1.0 when the fitted std is zero or undefined; a call with fit=False     *)
(* returns the statistics it was given and divides by their std; no        *)
(* _norm value is divided by zero.                                         *)
C22_NoZeroDivision ==
    [][ /\ (stats = None /\ stats' # None) => FittedOn(df[1], stats'[1])
        /\ stats # None => stats' = stats
        /\ stats' # None => NormalizedWith(df'[1], stats'[1]) ]_vars

C22_Witness ==
    /\ stats # None
    /\ DOMAIN stats[1] = SeqToSet(KEY_SENSORS) \ { "s_21" }
    /\ stats[1]["s_2"].std = Sqrt(Rat(2, 1))
    /\ stats[1]["s_3"].std = Sqrt(Rat(1, 1))
    /\ df[1].rows[1].unit_nr = 3
    /\ "s_2_norm" \in SeqToSet(df[1].columns)
    /\ df[1].rows[1]["s_2_norm"] =
          [difference |-> Rat(3, 1), divided_by |-> Sqrt(Rat(2, 1))]
    /\ "s_21" \in SeqToSet(df[1].columns)
    /\ "s_21_norm" \notin SeqToSet(df[1].columns)

----------------------------------------------------------------------------
(* Malformed raw files                                                     *)

(* some line of the file does not have one field per column *)
Malformed(lines) == \E i \in 1..Len(lines) : Len(lines[i]) # Len(RawColumns)

(* C23: no load of a file in which some line does not have exactly 26      *)
(* fields returns a frame: a load that has returned records was the load   *)
(* of a file of 26-field lines.                                            *)
C23_MalformedRejected ==
    df # None => ~Malformed(train_data)

----------------------------------------------------------------------------
(* The drift simulation                                                    *)

(* the last response is the drift report on a window of n entries *)
ReportOn(n) ==
    /\ IsResponse("/monitoring")
    /\ Len(recent_predictions) = n

(* C24: from the empty window, the report after 25 readings at the         *)
(* baseline means shows every deviation at 0% and no drift; the report     *)
(* after 25 further readings with every sensor multiplied by 1.5 is made   *)
(* on 50 entries, shows a maximum deviation above 20%, flags drift and     *)
(* lists at least one drifted feature.                                     *)
C24_Scenario ==
    /\ ReportOn(n_normal) =>
          /\ response[1].body.drift_detected = FALSE
          /\ response[1].body.recent_requests = n_normal
          /\ response[1].body.metrics.max_deviation_pct = 0
          /\ response[1].body.metrics.drifted_features = << >>
          /\ \A f \in SeqToSet(BASELINE_KEYS) :
                response[1].body.metrics.feature_statistics[f].deviation_pct = 0
    /\ ReportOn(n_normal + n_drift) =>
          /\ response[1].body.drift_detected = TRUE
          /\ response[1].body.recent_requests = n_normal + n_drift
          /\ response[1].body.metrics.max_deviation_pct
                > response[1].body.metrics.threshold_pct
          /\ response[1].body.metrics.threshold_pct = 2000
          /\ response[1].body.metrics.drifted_features # << >>

C24_Witness ==
    /\ ReportOn(n_normal + n_drift)
    /\ recent_predictions[n_normal].features = InputData[BaselineReading].row
    /\ recent_predictions[n_normal + 1].features = InputData[DriftedReading].row
    /\ response[1].body.drift_detected = TRUE
    /\ response[1].body.metrics.max_deviation_pct = 2500
    /\ Len(response[1].body.metrics.drifted_features) = 15

----------------------------------------------------------------------------
(* Retraining                                                              *)

(* what a retraining leaves behind: the model file, its backups, the       *)
(* feature list and the log                                                *)
retrained == << model_file, model_features, backups, feature_file, retrain_log >>

(* C25: a run of retrain.py with --check-only, whatever the drift status   *)
(* and whatever fails in it, trains no model, replaces no model file,      *)
(* rewrites no feature list and logs no retrain event.                     *)
C25_CheckOnly ==
    [][ \A failure \in RetrainFailures :
          retrain_main("--check-only", failure) => UNCHANGED retrained ]_vars

(* C29: whatever a run of retrain.py does and wherever it fails, a model   *)
(* file that was at MODEL_PATH before is there after it, and the feature   *)
(* list on disk is the one the model at MODEL_PATH was trained with.       *)
C29_RetrainKeepsModel ==
    [][ /\ model_file # "missing" => model_file' # "missing"
        /\ model_file' # "missing" =>
              /\ model_features' # None
              /\ feature_file'.exists
              /\ ReadFeatureNames(feature_file'.content) = model_features'[1] ]_vars

----------------------------------------------------------------------------
(* A key sensor that is no column                                          *)

(* the names the service computes for a complete reading: the fields it    *)
(* keeps and the three features of every key sensor                        *)
ComputedNames ==
    (SeqToSet(EngineFeatures) \ SeqToSet(DROPPED_SENSORS))
    \cup { s \o suffix : s \in SeqToSet(KEY_SENSORS), suffix \in DerivedSuffixes }

(* C26: a frame without the column of a key sensor gets none of its three  *)
(* derived columns from the rolling and the normalizing step, zero-filled  *)
(* or not; the vector of an answered prediction holds 0.0 under every      *)
(* expected name that the service did not compute.                         *)
C26_OmitOrZeroFill ==
    /\ df # None =>
          \A s \in SeqToSet(KEY_SENSORS) \ SeqToSet(df[1].columns) :
              \A suffix \in DerivedSuffixes :
                  (s \o suffix) \notin SeqToSet(df[1].columns)
    /\ Predicted =>
          \A k \in 1..Len(dmatrix[1].feature_names) :
              dmatrix[1].feature_names[k] \notin ComputedNames
                  => dmatrix[1].data[k] = Rat(0, 1)

C26_Witness ==
    /\ df # None
    /\ "s_21" \notin SeqToSet(df[1].columns)
    /\ { "s_2_mean", "s_2_std", "s_2_norm" } \subseteq SeqToSet(df[1].columns)
    /\ Predicted
    /\ "s_6_mean" \in SeqToSet(dmatrix[1].feature_names)
    /\ VectorValue(dmatrix[1], "s_6_mean") = Rat(0, 1)
    /\ VectorValue(dmatrix[1], "s_2_norm") = Rat(0, 1)

----------------------------------------------------------------------------
(* Reports and the window                                                  *)

(* C27: a report leaves the window as it was; the recent_requests it       *)
(* returns is the number of entries of the window, from 0 to 100; a        *)
(* report that follows a report returns the same response.                 *)
C27_ReportReadsOnly ==
    [][ (response' # None /\ response'[1].endpoint = "/monitoring") =>
          /\ recent_predictions' = recent_predictions
          /\ response'[1].body.recent_requests = Len(recent_predictions)
          /\ response'[1].body.recent_requests \in 0..MAXLEN
          /\ IsResponse("/monitoring") => response' = response ]_vars

C27_Witness ==
    /\ IsResponse("/monitoring")
    /\ now = MaxWindowRecords
    /\ Len(recent_predictions) = MAXLEN
    /\ response[1].body.recent_requests = MAXLEN
    /\ response[1].body.drift_detected = FALSE

----------------------------------------------------------------------------
(* The status and the RUL of one response                                  *)

(* C28: the status of every prediction response is the band of the RUL     *)
(* the response returns (the clamped value rounded to two decimals, here   *)
(* in hundredths of a cycle): Critical only below 30, Warning only from    *)
(* 30 up to but not including 80, Healthy only from 80.                    *)
C28_StatusOfReturned ==
    Predicted =>
        /\ response[1].body.status = "Critical" => response[1].body.RUL < 3000
        /\ response[1].body.status = "Warning" =>
              (3000 <= response[1].body.RUL /\ response[1].body.RUL < 8000)
        /\ response[1].body.status = "Healthy" => response[1].body.RUL >= 8000

----------------------------------------------------------------------------
(* The two batch implementations                                           *)

(* the ZenML pipeline has run: it leaves the frame and writes no model *)
PipelineRan == df # None /\ model_file = "missing"

(* train_model has run with its default flags: the frame has the rolling   *)
(* and the normalized columns                                              *)
DefaultTrainRan ==
    /\ df # None
    /\ model_file = "ok"
    /\ "s_2_mean" \in SeqToSet(df[1].columns)
    /\ "s_2_norm" \in SeqToSet(df[1].columns)

(* C30: on every raw file, the frame of the clean_data step is the frame   *)
(* of load_and_process_data with its default flags, column for column and  *)
(* value for value, and the two get_feature_columns select the same        *)
(* sorted list from it, whichever of the two implementations ran.          *)
C30_BatchEquivalent ==
    /\ PipelineRan =>
          /\ df[1] = load_and_process_data(train_data, TRUE, TRUE, TRUE)
          /\ feature_cols[1] = get_feature_columns(df[1].columns, TRUE, TRUE, FALSE)
    /\ DefaultTrainRan =>
          /\ df[1] = clean_data(ingest_data(train_data))
          /\ feature_cols[1] = steps_get_feature_columns(df[1].columns)

(* the pipeline ran on a file whose first row is 126 cycles from the end   *)
(* of its unit: RUL is capped, the constant sensors are gone, the one-row  *)
(* standard deviation is filled with 0                                     *)
C30_Witness ==
    /\ PipelineRan
    /\ Len(df[1].rows) = 2
    /\ df[1].rows[1].RUL = 126
    /\ df[1].rows[1].RUL_clipped = RUL_CAP
    /\ df[1].rows[1].s_2_std = Sqrt(Rat(0, 1))
    /\ "s_1" \notin SeqToSet(df[1].columns)
    /\ "s_2_norm" \in SeqToSet(df[1].columns)
    /\ feature_cols[1] = TrainedFeatures
====
